---- MODULE Spec2Model ----
(***************************************************************************)
(* Duplicate-image detector: the data-safety engine (pre-deletion backup,  *)
(* existence check, deletion, restore) and the duplicate-detection engine  *)
(* (exact grouping, greedy clustering, ranking, safety enforcement).       *)
(*                                                                         *)
(* The delete-files and restore-backup handlers are modelled one await at  *)
(* a time, so that other programs changing the file system interleave      *)
(* with them exactly where the code yields.                                *)
(***************************************************************************)
EXTENDS Integers, Sequences, FiniteSets, TLC

\* ------------------------------------------------------------------ bounds
MaxBatch == 2      \* longest filesToDelete list handed to delete-files
MaxExt == 1        \* external file-system events in one behaviour
NImages == 4       \* most image records handed to detectDuplicates
MaxRestores == 2   \* restore-backup calls in one behaviour
MaxStops == 1      \* emergency-stop calls in one behaviour
NRanked == 3       \* most images of the group handed to the ranking
NChecked == 3      \* most image records behind the groups handed to the checks

\* --------------------------------------------------------------- universe
Paths == {"a/x.jpg", "b/x.jpg", "a/y.jpg"}
\* file contents, as far as a digest tells them apart
Contents == {1, 2}
Absent == 0

\* path.basename(filePath)
Basename(p) == IF p = "a/y.jpg" THEN "y.jpg" ELSE "x.jpg"

\* crypto.createHash('sha256').update(data).digest('hex'): collision free on
\* the modelled contents
calculateFileHash(data) == <<"sha256", data>>

SeqsUpTo(S, n) == UNION {[1..k -> S] : k \in 0..n}
Range(s) == {s[i] : i \in 1..Len(s)}

VARIABLES
  fs,            \* the user's files: path -> content, Absent when missing
  backupDirs,    \* backup/pre-deletion: backupId -> [files, manifest]
  operationLog,  \* DataSafetyManager.operationLog
  now,           \* Date.now()
  pc,            \* position of the running handler
  sub,           \* position inside one loop iteration
  filesToDelete, \* argument of the delete-files handler
  idx,           \* loop index of the running loop (1-based)
  backupId,      \* id of the backup the handler works with, 0 when none
  copiedFiles,   \* createPreDeletionBackup's copiedFiles
  verification,  \* verifyFilesExist's verification record
  seen,          \* what fs.pathExists answered, per index, in verifyFilesExist
  results,       \* deleteFiles' results
  trashBin,      \* what the disposal collaborator (trash) has taken
  restored,      \* restoreFromBackup's restored
  failed,        \* restoreFromBackup's failed
  mismatch,      \* a copy digest differed from its source digest in this run
  extCount,      \* external events so far
  stopReplies,   \* what the emergency-stop handler answered, call by call
  restoreReply,  \* what the last restore-backup call returned, if it has
  images,        \* detectDuplicates' argument: the scanned image records
  dpc,           \* position of detectDuplicates
  duplicateGroups, \* detectDuplicates' duplicateGroups
  uniqueImages,  \* images whose hash no other image has, in Map order
  seed,          \* detectWithEnterpriseAI's i
  cand,          \* detectWithEnterpriseAI's j
  similarImages, \* the cluster of the current seed
  processed,     \* detectWithEnterpriseAI's processed set
  similarGroups, \* detectWithEnterpriseAI's similarGroups
  qualityScore,  \* image.qualityScore, per image record
  recommended,   \* image.recommended, per image record
  configured,    \* the providers AI_CONFIG holds a key for
  comparison,    \* the comparison the j loop has just made, if any
  detectReply,   \* what the detect-duplicates handler answered, if it has
  pureArgs,      \* the arguments of a function examined on its own
  pureResult     \* what that function returned, once it has

safetyVars == <<fs, backupDirs, operationLog, now, pc, sub, filesToDelete,
                idx, backupId, copiedFiles, verification, seen, results,
                trashBin, restored, failed, mismatch, extCount, stopReplies,
                restoreReply>>

detectVars == <<images, dpc, duplicateGroups, uniqueImages, seed, cand,
                similarImages, processed, similarGroups, qualityScore,
                recommended, configured, comparison, detectReply>>

pureVars == <<pureArgs, pureResult>>

vars == <<safetyVars, detectVars, pureVars>>

handlerVars == <<pc, sub, filesToDelete, idx, backupId, copiedFiles,
                 verification, seen, results, restored, failed, mismatch>>

NoVerification == [total |-> 0, existing |-> 0, missing |-> <<>>, verified |-> TRUE]
NoResults == [deleted |-> <<>>, failed |-> <<>>, total |-> 0]
NoManifest == [written |-> FALSE, totalFiles |-> 0, files |-> <<>>]

\* new DataSafetyManager() + initializeSafety(); the user's files are whatever
\* they are
\* no detection pass is running
NoDetection ==
  /\ images = <<>>
  /\ dpc = "idle"
  /\ duplicateGroups = <<>>
  /\ uniqueImages = <<>>
  /\ seed = 0
  /\ cand = 0
  /\ similarImages = <<>>
  /\ processed = {}
  /\ similarGroups = <<>>
  /\ qualityScore = <<>>
  /\ recommended = <<>>
  /\ configured = {}
  /\ comparison = <<>>
  /\ detectReply = <<>>

\* no handler has run
HandlersIdle ==
  /\ backupDirs = <<>>
  /\ operationLog = <<>>
  /\ now = 1
  /\ pc = "idle"
  /\ sub = "none"
  /\ filesToDelete = <<>>
  /\ idx = 0
  /\ backupId = 0
  /\ copiedFiles = <<>>
  /\ verification = NoVerification
  /\ seen = <<>>
  /\ results = NoResults
  /\ trashBin = <<>>
  /\ restored = <<>>
  /\ failed = <<>>
  /\ mismatch = FALSE
  /\ extCount = 0
  /\ stopReplies = <<>>
  /\ restoreReply = <<>>

\* no function is being examined on its own
NoPureCall ==
  /\ pureArgs = <<>>
  /\ pureResult = <<>>

Init ==
  /\ fs \in [Paths -> {Absent} \cup Contents]
  /\ HandlersIdle
  /\ NoPureCall
  /\ NoDetection

\* ------------------------------------------------- other programs (the OS)
ExtWrite ==
  /\ extCount < MaxExt
  /\ \E p \in Paths, c \in Contents :
       /\ fs[p] # c
       /\ fs' = [fs EXCEPT ![p] = c]
  /\ extCount' = extCount + 1
  /\ UNCHANGED <<backupDirs, operationLog, now, trashBin, handlerVars,
                 stopReplies, restoreReply, detectVars, pureVars>>

ExtRemove ==
  /\ extCount < MaxExt
  /\ \E p \in Paths :
       /\ fs[p] # Absent
       /\ fs' = [fs EXCEPT ![p] = Absent]
  /\ extCount' = extCount + 1
  /\ UNCHANGED <<backupDirs, operationLog, now, trashBin, handlerVars,
                 stopReplies, restoreReply, detectVars, pureVars>>

\* ------------------------------------------------ createPreDeletionBackup
\* the handler's catch: console.error, throw error
Fail ==
  /\ pc' = "failed"
  /\ sub' = "none"

\* mutant of safeName: the copy is named after the file alone
safeNameNoIndex(copied, filePath) == <<0, Basename(filePath)>>

\* `${copiedFiles.length}_${fileName}`
safeName(copied, filePath) == <<Len(copied), Basename(filePath)>>

\* fs.ensureDir(backupPath): an existing directory is kept as it is
ensureDir(dirs, id) ==
  IF id \in DOMAIN dirs THEN dirs
  ELSE (id :> [files |-> <<>>, manifest |-> NoManifest]) @@ dirs

\* fs.copy / fs.writeFile into the backup directory: the file is created or
\* overwritten
writeBackupFile(dirs, id, name, data) ==
  [dirs EXCEPT ![id].files = (name :> data) @@ dirs[id].files]

\* ipcMain.handle('delete-files') up to the first await inside
\* createPreDeletionBackup: timestamp, backupId, ensureDir
StartDelete ==
  /\ pc = "idle"
  /\ \E paths \in SeqsUpTo(Paths, MaxBatch) : filesToDelete' = paths
  /\ backupId' = now
  /\ backupDirs' = ensureDir(backupDirs, now)
  /\ copiedFiles' = <<>>
  /\ idx' = 1
  /\ pc' = "backing-up"
  /\ sub' = "exists"
  /\ verification' = NoVerification
  /\ seen' = <<>>
  /\ results' = NoResults
  /\ restored' = <<>>
  /\ failed' = <<>>
  /\ mismatch' = FALSE
  /\ UNCHANGED <<fs, operationLog, now, trashBin, extCount, stopReplies,
                 restoreReply, detectVars, pureVars>>

\* if (await fs.pathExists(filePath)): a missing file is skipped
BackupExists ==
  /\ pc = "backing-up" /\ sub = "exists" /\ idx <= Len(filesToDelete)
  /\ IF fs[filesToDelete[idx]] # Absent
       THEN sub' = "copy" /\ idx' = idx
       ELSE sub' = "exists" /\ idx' = idx + 1
  /\ UNCHANGED <<fs, backupDirs, operationLog, now, pc, filesToDelete,
                 backupId, copiedFiles, verification, seen, results,
                 restored, failed, mismatch, trashBin, extCount, stopReplies,
                 restoreReply, detectVars, pureVars>>

\* await fs.copy(filePath, copyPath): raises when the source has gone
BackupCopy ==
  /\ pc = "backing-up" /\ sub = "copy"
  /\ LET filePath == filesToDelete[idx] IN
       IF fs[filePath] = Absent
         THEN Fail /\ UNCHANGED backupDirs
         ELSE /\ backupDirs' = writeBackupFile(backupDirs, backupId,
                                  safeName(copiedFiles, filePath), fs[filePath])
              /\ sub' = "verify"
              /\ pc' = pc
  /\ UNCHANGED <<fs, operationLog, now, filesToDelete, idx, backupId,
                 copiedFiles, verification, seen, results, restored, failed,
                 mismatch, trashBin, extCount, stopReplies,
                 restoreReply, detectVars, pureVars>>

\* mutant of BackupVerify: the two digests are not compared
BackupVerifyNoCompare ==
  /\ pc = "backing-up" /\ sub = "verify"
  /\ fs[filesToDelete[idx]] # Absent
  /\ copiedFiles' = Append(copiedFiles,
                      [originalPath |-> filesToDelete[idx],
                       backupPath |-> safeName(copiedFiles, filesToDelete[idx]),
                       verified |-> TRUE,
                       hash |-> calculateFileHash(fs[filesToDelete[idx]])])
  /\ idx' = idx + 1
  /\ sub' = "exists"
  /\ UNCHANGED <<fs, backupDirs, operationLog, now, pc, filesToDelete,
                 backupId, verification, seen, results, restored, failed,
                 mismatch, trashBin, extCount, stopReplies,
                 restoreReply, detectVars, pureVars>>

\* originalHash / copyHash, the comparison and copiedFiles.push; readFile of
\* the source raises when it has gone
BackupVerify ==
  /\ pc = "backing-up" /\ sub = "verify"
  /\ LET filePath == filesToDelete[idx]
         copyPath == safeName(copiedFiles, filePath)
         originalHash == calculateFileHash(fs[filePath])
         copyHash == calculateFileHash(backupDirs[backupId].files[copyPath])
     IN
       IF fs[filePath] = Absent
         THEN Fail /\ UNCHANGED <<copiedFiles, idx, mismatch>>
         ELSE IF originalHash # copyHash
           THEN Fail /\ mismatch' = TRUE /\ UNCHANGED <<copiedFiles, idx>>
           ELSE /\ copiedFiles' = Append(copiedFiles,
                                    [originalPath |-> filePath,
                                     backupPath |-> copyPath,
                                     verified |-> TRUE,
                                     hash |-> originalHash])
                /\ idx' = idx + 1
                /\ sub' = "exists"
                /\ pc' = pc
                /\ mismatch' = mismatch
  /\ UNCHANGED <<fs, backupDirs, operationLog, now, filesToDelete, backupId,
                 verification, seen, results, restored, failed, trashBin, extCount, stopReplies,
                 restoreReply, detectVars, pureVars>>

\* manifest.json, operationLog.push, return backupId; the handler goes on to
\* verifyFilesExist
BackupFinish ==
  /\ pc = "backing-up" /\ sub = "exists" /\ idx > Len(filesToDelete)
  /\ backupDirs' = [backupDirs EXCEPT ![backupId].manifest =
                      [written |-> TRUE,
                       totalFiles |-> Len(copiedFiles),
                       files |-> copiedFiles]]
  /\ operationLog' = Append(operationLog,
                       [operation |-> "pre-deletion-backup",
                        backupId |-> backupId,
                        status |-> "completed",
                        itemCount |-> Len(copiedFiles)])
  /\ pc' = "verifying"
  /\ idx' = 1
  /\ verification' = [total |-> Len(filesToDelete), existing |-> 0,
                      missing |-> <<>>, verified |-> TRUE]
  /\ seen' = <<>>
  /\ UNCHANGED <<fs, now, sub, filesToDelete, backupId, copiedFiles, results,
                 restored, failed, mismatch, trashBin, extCount, stopReplies,
                 restoreReply, detectVars, pureVars>>

\* mutant of VerifyStep: a missing path is listed but verified stays true
VerifyStepKeepsVerified ==
  /\ pc = "verifying" /\ idx <= Len(filesToDelete)
  /\ seen' = Append(seen, fs[filesToDelete[idx]] # Absent)
  /\ verification' =
       IF fs[filesToDelete[idx]] # Absent
         THEN [verification EXCEPT !.existing = @ + 1]
         ELSE [verification EXCEPT !.missing = Append(@, filesToDelete[idx])]
  /\ idx' = idx + 1
  /\ UNCHANGED <<fs, backupDirs, operationLog, now, pc, sub, filesToDelete,
                 backupId, copiedFiles, results, restored, failed, mismatch,
                 trashBin, extCount, stopReplies,
                 restoreReply, detectVars, pureVars>>

\* mutant of VerifyFinish: the handler does not look at verification.verified
VerifyFinishNoAbort ==
  /\ pc = "verifying" /\ idx > Len(filesToDelete)
  /\ pc' = "deleting"
  /\ sub' = "import"
  /\ idx' = 1
  /\ results' = [deleted |-> <<>>, failed |-> <<>>,
                 total |-> Len(filesToDelete)]
  /\ UNCHANGED <<fs, backupDirs, operationLog, now, filesToDelete, backupId,
                 copiedFiles, verification, seen, restored, failed, mismatch,
                 trashBin, extCount, stopReplies,
                 restoreReply, detectVars, pureVars>>

\* ------------------------------------------------------- verifyFilesExist
\* one iteration of the loop over filePaths
VerifyStep ==
  /\ pc = "verifying" /\ idx <= Len(filesToDelete)
  /\ LET filePath == filesToDelete[idx]
         exists == fs[filePath] # Absent
     IN
       /\ seen' = Append(seen, exists)
       /\ verification' =
            IF exists
              THEN [verification EXCEPT !.existing = @ + 1]
              ELSE [verification EXCEPT !.missing = Append(@, filePath),
                                        !.verified = FALSE]
  /\ idx' = idx + 1
  /\ UNCHANGED <<fs, backupDirs, operationLog, now, pc, sub, filesToDelete,
                 backupId, copiedFiles, results, restored, failed, mismatch,
                 trashBin, extCount, stopReplies,
                 restoreReply, detectVars, pureVars>>

\* return verification; the handler raises when it is not verified and calls
\* deleteFiles otherwise
VerifyFinish ==
  /\ pc = "verifying" /\ idx > Len(filesToDelete)
  /\ IF ~verification.verified
       THEN Fail /\ UNCHANGED <<idx, results>>
       ELSE /\ pc' = "deleting"
            /\ sub' = "import"
            /\ idx' = 1
            /\ results' = [deleted |-> <<>>, failed |-> <<>>,
                           total |-> Len(filesToDelete)]
  /\ UNCHANGED <<fs, backupDirs, operationLog, now, filesToDelete, backupId,
                 copiedFiles, verification, seen, restored, failed, mismatch,
                 trashBin, extCount, stopReplies,
                 restoreReply, detectVars, pureVars>>

\* ------------------------------------------------------------ deleteFiles
\* const trash = await getTrashModule()
DeleteImport ==
  /\ pc = "deleting" /\ sub = "import"
  /\ sub' = "exists"
  /\ UNCHANGED <<fs, backupDirs, operationLog, now, pc, filesToDelete, idx,
                 backupId, copiedFiles, verification, seen, results, restored,
                 failed, mismatch, trashBin, extCount, stopReplies,
                 restoreReply, detectVars, pureVars>>

\* import('trash') raises: deleteFiles raises before its loop and the handler
\* rethrows
DeleteImportRaise ==
  /\ pc = "deleting" /\ sub = "import"
  /\ Fail
  /\ UNCHANGED <<fs, backupDirs, operationLog, now, filesToDelete, idx,
                 backupId, copiedFiles, verification, seen, results, restored,
                 failed, mismatch, trashBin, extCount, stopReplies,
                 restoreReply, detectVars, pureVars>>

\* if (await fs.pathExists(filePath)) ... else failed.push 'File not found'
DeleteExists ==
  /\ pc = "deleting" /\ sub = "exists" /\ idx <= Len(filesToDelete)
  /\ LET filePath == filesToDelete[idx] IN
       IF fs[filePath] # Absent
         THEN /\ sub' = "trash"
              /\ UNCHANGED <<idx, results>>
         ELSE /\ results' = [results EXCEPT !.failed =
                    Append(@, [path |-> filePath, error |-> "File not found"])]
              /\ idx' = idx + 1
              /\ sub' = "exists"
  /\ UNCHANGED <<fs, backupDirs, operationLog, now, pc, filesToDelete,
                 backupId, copiedFiles, verification, seen, restored, failed,
                 mismatch, trashBin, extCount, stopReplies,
                 restoreReply, detectVars, pureVars>>

\* await trash([filePath]); results.deleted.push(filePath)
DeleteTrash ==
  /\ pc = "deleting" /\ sub = "trash"
  /\ LET filePath == filesToDelete[idx] IN
       /\ fs[filePath] # Absent
       /\ fs' = [fs EXCEPT ![filePath] = Absent]
       /\ trashBin' = Append(trashBin, [path |-> filePath, data |-> fs[filePath]])
       /\ results' = [results EXCEPT !.deleted = Append(@, filePath)]
  /\ sub' = "log"
  /\ UNCHANGED <<backupDirs, operationLog, now, pc, filesToDelete, idx,
                 backupId, copiedFiles, verification, seen, restored, failed,
                 mismatch, extCount, stopReplies,
                 restoreReply, detectVars, pureVars>>

\* a disposal error that escapes deleteFiles
DeleteTrashRaiseAborts ==
  /\ pc = "deleting" /\ sub = "trash"
  /\ Fail
  /\ UNCHANGED <<fs, backupDirs, operationLog, now, filesToDelete, idx,
                 backupId, copiedFiles, verification, seen, results, restored,
                 failed, mismatch, trashBin, extCount, stopReplies,
                 restoreReply, detectVars, pureVars>>

\* trash raises (the file has gone, or it cannot be moved): the catch records
\* the path in failed
DeleteTrashRaise ==
  /\ pc = "deleting" /\ sub = "trash"
  /\ results' = [results EXCEPT !.failed =
        Append(@, [path |-> filesToDelete[idx], error |-> "trash failed"])]
  /\ idx' = idx + 1
  /\ sub' = "exists"
  /\ UNCHANGED <<fs, backupDirs, operationLog, now, pc, filesToDelete,
                 backupId, copiedFiles, verification, seen, restored, failed,
                 mismatch, trashBin, extCount, stopReplies,
                 restoreReply, detectVars, pureVars>>

\* await logDeletion(filePath)
DeleteLog ==
  /\ pc = "deleting" /\ sub = "log"
  /\ idx' = idx + 1
  /\ sub' = "exists"
  /\ UNCHANGED <<fs, backupDirs, operationLog, now, pc, filesToDelete,
                 backupId, copiedFiles, verification, seen, results, restored,
                 failed, mismatch, trashBin, extCount, stopReplies,
                 restoreReply, detectVars, pureVars>>

\* logDeletion raises after the file was trashed and pushed to deleted: the
\* catch records the path in failed as well
DeleteLogRaise ==
  /\ pc = "deleting" /\ sub = "log"
  /\ results' = [results EXCEPT !.failed =
        Append(@, [path |-> filesToDelete[idx], error |-> "log failed"])]
  /\ idx' = idx + 1
  /\ sub' = "exists"
  /\ UNCHANGED <<fs, backupDirs, operationLog, now, pc, filesToDelete,
                 backupId, copiedFiles, verification, seen, restored, failed,
                 mismatch, trashBin, extCount, stopReplies,
                 restoreReply, detectVars, pureVars>>

\* return results; result.backupId = backupId
DeleteFinish ==
  /\ pc = "deleting" /\ sub = "exists" /\ idx > Len(filesToDelete)
  /\ pc' = "completed"
  /\ sub' = "none"
  /\ UNCHANGED <<fs, backupDirs, operationLog, now, filesToDelete, idx,
                 backupId, copiedFiles, verification, seen, results, restored,
                 failed, mismatch, trashBin, extCount, stopReplies,
                 restoreReply, detectVars, pureVars>>

\* ------------------------------------------------------ restoreFromBackup
\* ipcMain.handle('restore-backup'): the backup directory must exist and its
\* manifest.json must be readable, else the handler raises
\* the restore-backup calls that have returned
RestoreCalls ==
  Cardinality({n \in 1..Len(operationLog) :
                 operationLog[n].operation = "restore-from-backup"})

StartRestore ==
  /\ pc \in {"completed", "failed", "restored"}
  /\ RestoreCalls < MaxRestores
  /\ backupId # 0
  /\ IF backupId \in DOMAIN backupDirs /\ backupDirs[backupId].manifest.written
       THEN /\ pc' = "restoring"
            /\ sub' = "exists"
            /\ idx' = 1
       ELSE /\ pc' = "restore-failed"
            /\ sub' = "none"
            /\ idx' = idx
  /\ restored' = <<>>
  /\ failed' = <<>>
  /\ restoreReply' = <<>>
  /\ UNCHANGED <<fs, backupDirs, operationLog, now, filesToDelete, backupId,
                 copiedFiles, verification, seen, results, mismatch, trashBin,
                 extCount, stopReplies, detectVars, pureVars>>

manifestFiles == backupDirs[backupId].manifest.files

\* an existence test that passes over a file that is already there
RestoreExistsSkipsSilently ==
  /\ pc = "restoring" /\ sub = "exists" /\ idx <= Len(manifestFiles)
  /\ LET file == manifestFiles[idx] IN
       IF fs[file.originalPath] = Absent
         THEN /\ sub' = "copy"
              /\ UNCHANGED <<idx, restored>>
         ELSE /\ restored' = restored
              /\ idx' = idx + 1
              /\ sub' = "exists"
  /\ UNCHANGED <<fs, backupDirs, operationLog, now, pc, filesToDelete,
                 backupId, copiedFiles, verification, seen, results, failed,
                 mismatch, trashBin, extCount, stopReplies,
                 restoreReply, detectVars, pureVars>>

\* if (!await fs.pathExists(file.originalPath)) ... else restored.push
RestoreExists ==
  /\ pc = "restoring" /\ sub = "exists" /\ idx <= Len(manifestFiles)
  /\ LET file == manifestFiles[idx] IN
       IF fs[file.originalPath] = Absent
         THEN /\ sub' = "copy"
              /\ UNCHANGED <<idx, restored>>
         ELSE /\ restored' = Append(restored, file.originalPath)
              /\ idx' = idx + 1
              /\ sub' = "exists"
  /\ UNCHANGED <<fs, backupDirs, operationLog, now, pc, filesToDelete,
                 backupId, copiedFiles, verification, seen, results, failed,
                 mismatch, trashBin, extCount, stopReplies,
                 restoreReply, detectVars, pureVars>>

\* await fs.copy(file.backupPath, file.originalPath)
RestoreCopy ==
  /\ pc = "restoring" /\ sub = "copy"
  /\ LET file == manifestFiles[idx] IN
       fs' = [fs EXCEPT ![file.originalPath] =
                backupDirs[backupId].files[file.backupPath]]
  /\ sub' = "verify"
  /\ UNCHANGED <<backupDirs, operationLog, now, pc, filesToDelete, idx,
                 backupId, copiedFiles, verification, seen, results, restored,
                 failed, mismatch, trashBin, extCount, stopReplies,
                 restoreReply, detectVars, pureVars>>

\* fs.copy raises: the catch records the path in failed
RestoreCopyRaise ==
  /\ pc = "restoring" /\ sub = "copy"
  /\ failed' = Append(failed, [path |-> manifestFiles[idx].originalPath,
                               reason |-> "copy failed"])
  /\ idx' = idx + 1
  /\ sub' = "exists"
  /\ UNCHANGED <<fs, backupDirs, operationLog, now, pc, filesToDelete,
                 backupId, copiedFiles, verification, seen, results, restored,
                 mismatch, trashBin, extCount, stopReplies,
                 restoreReply, detectVars, pureVars>>

\* restoredHash === file.hash ? restored.push : failed.push; readFile raises
\* when the file has gone again, which the catch records in failed
RestoreVerify ==
  /\ pc = "restoring" /\ sub = "verify"
  /\ LET file == manifestFiles[idx]
         restoredHash == calculateFileHash(fs[file.originalPath])
     IN
       IF fs[file.originalPath] # Absent /\ restoredHash = file.hash
         THEN /\ restored' = Append(restored, file.originalPath)
              /\ failed' = failed
         ELSE /\ failed' = Append(failed,
                   [path |-> file.originalPath,
                    reason |-> IF fs[file.originalPath] = Absent
                                 THEN "read failed"
                                 ELSE "Hash mismatch after restore"])
              /\ restored' = restored
  /\ idx' = idx + 1
  /\ sub' = "exists"
  /\ UNCHANGED <<fs, backupDirs, operationLog, now, pc, filesToDelete,
                 backupId, copiedFiles, verification, seen, results, mismatch,
                 trashBin, extCount, stopReplies,
                 restoreReply, detectVars, pureVars>>

\* operationLog.push and the returned {backupId, restored, failed, success}
RestoreFinish ==
  /\ pc = "restoring" /\ sub = "exists" /\ idx > Len(manifestFiles)
  /\ operationLog' = Append(operationLog,
                       [operation |-> "restore-from-backup",
                        backupId |-> backupId,
                        status |-> IF Len(failed) > 0 THEN "partial"
                                                      ELSE "completed",
                        itemCount |-> Len(restored)])
  /\ restoreReply' = <<[backupId |-> backupId,
                        restored |-> restored,
                        failed |-> failed,
                        success |-> Len(failed) = 0]>>
  /\ pc' = "restored"
  /\ sub' = "none"
  /\ UNCHANGED <<fs, backupDirs, now, filesToDelete, idx, backupId,
                 copiedFiles, verification, seen, results, restored, failed,
                 mismatch, trashBin, extCount, stopReplies, detectVars,
                 pureVars>>

\* ------------------------------------------------------------ emergencyStop
\* a stop method that returns instead of raising
emergencyStopReturns == "returned"

\* how emergencyStop ends: its last statement is an unconditional throw
emergencyStopOutcome == "raised"

\* the emergency-stop handler: emergencyStop pushes its log entry and raises;
\* the handler's catch turns the error into {stopped: true, message}, and a
\* call that returned would be answered with undefined.  The entry's
\* position (what the delete-files handler was doing, how many files of the
\* batch deleteFiles had begun to process) stands for its timestamp
EmergencyStop ==
  /\ Len(stopReplies) < MaxStops
  /\ operationLog' = Append(operationLog,
                       [operation |-> "emergency-stop",
                        status |-> "activated",
                        during |-> pc,
                        started |-> IF pc # "deleting" THEN 0
                                    ELSE IF sub \in {"trash", "log"} THEN idx
                                    ELSE idx - 1])
  /\ stopReplies' = Append(stopReplies,
                      IF emergencyStopOutcome = "raised"
                      THEN [stopped |-> TRUE,
                            message |-> "Emergency stop activated"]
                      ELSE [stopped |-> FALSE, message |-> "undefined"])
  /\ UNCHANGED <<fs, backupDirs, now, trashBin, extCount, handlerVars,
                 restoreReply, detectVars, pureVars>>

\* ------------------------------------------------------ detection: records
\* file digests the scanner stored in image.hash
Hashes == {"h1", "h2", "h3"}
\* image.size in units of 1.25 MiB
Sizes == {1, 2}

\* a similarity or confidence value n/d, compared without rounding
Frac(n, d) == [num |-> n, den |-> d]
AtLeast(x, y) == x.num * y.den >= y.num * x.den

\* AI_CONFIG.similarityThreshold (0.92)
similarityThreshold == Frac(92, 100)
\* the confidence a consensus needs to absorb an image (0.9)
minConfidence == Frac(90, 100)

RECURSIVE GCD(_, _)
GCD(a, b) == IF b = 0 THEN a ELSE GCD(b, a % b)

\* exact arithmetic on the values
Norm(x) == LET g == GCD(x.num, x.den)
           IN IF g = 0 THEN x ELSE Frac(x.num \div g, x.den \div g)
FracAdd(x, y) == Norm(Frac(x.num * y.den + y.num * x.den, x.den * y.den))
FracMul(x, y) == Norm(Frac(x.num * y.num, x.den * y.den))
FracDiv(x, y) == Norm(Frac(x.num * y.den, x.den * y.num))

\* the AI providers a key can be configured for
Providers == {"google", "azure", "aws"}

\* the provider configurations examined: no key at all, keys for two providers
Configurations == {{}, {"google", "azure"}}

\* the confidence each compareWith... function attaches to its answer
providerConfidence(provider) ==
  CASE provider = "google" -> Frac(95, 100)
    [] provider = "azure" -> Frac(93, 100)
    [] provider = "aws" -> Frac(91, 100)
    [] provider = "local-advanced" -> Frac(80, 100)

\* getMultiProviderConsensus' weights
providerWeight(provider) ==
  CASE provider = "google" -> Frac(40, 100)
    [] provider = "azure" -> Frac(35, 100)
    [] provider = "aws" -> Frac(35, 100)
    [] provider = "local-advanced" -> Frac(20, 100)
    [] OTHER -> Frac(10, 100)

\* what the four local methods can answer for a pair
LocalMethodResults ==
  { <<Frac(1, 1), Frac(1, 1), Frac(1, 1), Frac(1, 1)>>,
    <<Frac(1, 1), Frac(1, 1), Frac(0, 1), Frac(0, 1)>> }

\* what a provider can answer for a pair; "unavailable" when its call raises
ProviderReplies == {"unavailable", "same", "different"}
providerSimilarity(reply) ==
  IF reply = "same" THEN Frac(1, 1) ELSE Frac(1, 2)

\* compareWithAdvancedLocal: the weighted sum of the four methods
compareWithAdvancedLocal(methods) ==
  [provider |-> "local-advanced",
   similarity |-> FracAdd(FracAdd(FracMul(methods[1], Frac(30, 100)),
                                  FracMul(methods[2], Frac(30, 100))),
                          FracAdd(FracMul(methods[3], Frac(20, 100)),
                                  FracMul(methods[4], Frac(20, 100)))),
   confidence |-> providerConfidence("local-advanced")]

RECURSIVE weightedSum(_, _, _)
weightedSum(answers, k, field) ==
  IF k > Len(answers) THEN Frac(0, 1)
  ELSE FracAdd(FracMul(answers[k][field],
                       providerWeight(answers[k].provider)),
               weightedSum(answers, k + 1, field))

RECURSIVE totalWeight(_, _)
totalWeight(answers, k) ==
  IF k > Len(answers) THEN Frac(0, 1)
  ELSE FracAdd(providerWeight(answers[k].provider),
               totalWeight(answers, k + 1))

\* mutant of getMultiProviderConsensus: the sums are divided by the weight of
\* all four voters, whoever answered
consensusOverAllWeights(answers) ==
  [similarity |-> FracDiv(weightedSum(answers, 1, "similarity"),
                          Frac(130, 100)),
   confidence |-> FracDiv(weightedSum(answers, 1, "confidence"),
                          Frac(130, 100)),
   individualResults |-> answers]

\* getMultiProviderConsensus on the answers collected for a pair
getMultiProviderConsensus(answers) ==
  IF Len(answers) = 0
  THEN [similarity |-> Frac(0, 1), confidence |-> Frac(0, 1),
        individualResults |-> answers]
  ELSE [similarity |-> FracDiv(weightedSum(answers, 1, "similarity"),
                               totalWeight(answers, 1)),
        confidence |-> FracDiv(weightedSum(answers, 1, "confidence"),
                               totalWeight(answers, 1)),
        individualResults |-> answers]

\* the answers of the configured providers that did answer, in the order
\* google, azure, aws, followed by the local answer
collectResults(config, replies, methods) ==
  LET answer(provider) ==
        IF provider \in config /\ replies[provider] # "unavailable"
        THEN <<[provider |-> provider,
                similarity |-> providerSimilarity(replies[provider]),
                confidence |-> providerConfidence(provider)]>>
        ELSE <<>>
  IN answer("google") \o answer("azure") \o answer("aws")
     \o <<compareWithAdvancedLocal(methods)>>

\* what getMultiProviderConsensus can answer for a pair, for each provider
\* configuration
ConsensusTable ==
  [config \in Configurations |->
     { getMultiProviderConsensus(collectResults(config, replies, methods)) :
         replies \in [config -> ProviderReplies],
         methods \in LocalMethodResults }]

\* what getMultiProviderConsensus can answer for a pair under the configured
\* providers
ConsensusResults == ConsensusTable[configured]

\* what calculatePerceptualHash can answer: matching bits of the 64-bit
\* hashes, or 0 when an image cannot be read
HashSimilarities == {Frac(59, 64), Frac(58, 64), Frac(0, 1)}

\* one record as scanFolder builds it; it carries no recommended flag.
\* resolution in units of 2.5 megapixels, modified as the age in units of 73
\* days, path as its segments
ScannedImage(k, h, s) ==
  [path |-> <<"photos", ToString(k)>>, hash |-> h, size |-> s,
   resolution |-> 1, modified |-> 1, format |-> "jpg"]

\* ------------------------------------------------------- detection: pure
\* a Map keyed by the byte size alone
groupKeyBySize(image) == image.size

\* the Map key groupByHash files an image under
groupKey(image) == image.hash

\* groupByHash: the Map's values in insertion order, each the indices of the
\* images filed under one key, in input order
RECURSIVE groupByHashFrom(_, _, _)
groupByHashFrom(imgs, k, acc) ==
  IF k > Len(imgs) THEN acc
  ELSE LET known == {g \in 1..Len(acc) :
                       groupKey(imgs[acc[g][1]]) = groupKey(imgs[k])}
       IN IF known = {}
          THEN groupByHashFrom(imgs, k + 1, Append(acc, <<k>>))
          ELSE LET g == CHOOSE x \in known : TRUE
               IN groupByHashFrom(imgs, k + 1,
                                  [acc EXCEPT ![g] = Append(acc[g], k)])

groupByHash(imgs) == groupByHashFrom(imgs, 1, <<>>)

exactGroup(imageGroup) ==
  [type |-> "exact", images |-> imageGroup, similarity |-> Frac(1, 1),
   confidence |-> "absolute", detectionMethod |-> "file-hash",
   safetyVerified |-> FALSE]

aiGroup(imageGroup) ==
  [type |-> "ai-detected", images |-> imageGroup,
   similarity |-> similarityThreshold, confidence |-> "high",
   detectionMethod |-> "multi-provider-ai", safetyVerified |-> FALSE]

\* format factor, in thousandths of the score
formatScore(format) ==
  CASE format = "png" -> 100
    [] format = "tiff" -> 90
    [] format \in {"jpg", "jpeg"} -> 70
    [] format = "gif" -> 50
    [] format = "bmp" -> 60
    [] format = "webp" -> 80
    [] OTHER -> 50

Min(a, b) == IF a <= b THEN a ELSE b
Max(a, b) == IF a >= b THEN a ELSE b

\* mutant of calculateQualityScore: the sum is returned as it is
calculateQualityScoreUncapped(image) ==
  image.resolution * 100
  + Min(image.size, 4) * 50
  + Max(0, 5 - image.modified) * 40
  + formatScore(image.format)
  + Min(Len(image.path), 10) * 10

\* calculateQualityScore, in thousandths
calculateQualityScore(image) ==
  Min(image.resolution * 100
      + Min(image.size, 4) * 50
      + Max(0, 5 - image.modified) * 40
      + formatScore(image.format)
      + Min(Len(image.path), 10) * 10,
      1000)

\* Array.prototype.sort((a, b) => b.qualityScore - a.qualityScore): stable,
\* highest score first
RECURSIVE insertByScore(_, _, _)
insertByScore(sorted, x, score) ==
  IF sorted = <<>> THEN <<x>>
  ELSE IF score[Head(sorted)] >= score[x]
       THEN <<Head(sorted)>> \o insertByScore(Tail(sorted), x, score)
       ELSE <<x>> \o sorted

RECURSIVE sortByScore(_, _)
sortByScore(s, score) ==
  IF s = <<>> THEN <<>>
  ELSE insertByScore(sortByScore(SubSeq(s, 1, Len(s) - 1), score),
                     s[Len(s)], score)

\* mutant of verifyFlagsFrom: a group without a flagged image is left as it is
RECURSIVE verifyFlagsNoFallback(_, _, _)
verifyFlagsNoFallback(groups, k, rec) ==
  IF k > Len(groups) THEN rec
  ELSE LET imgs == groups[k].images
           flagged == Cardinality({n \in 1..Len(imgs) : rec[imgs[n]]})
           rec2 == IF flagged >= Len(imgs) /\ Len(imgs) > 0
                   THEN [n \in DOMAIN rec |->
                           IF n \in Range(Tail(imgs)) THEN FALSE
                           ELSE IF n = imgs[1] THEN TRUE ELSE rec[n]]
                   ELSE rec
       IN verifyFlagsNoFallback(groups, k + 1, rec2)

\* verifySafetyBeforeReturn on the groups from position k on, threading the
\* recommended flags the groups' images carry
RECURSIVE verifyFlagsFrom(_, _, _)
verifyFlagsFrom(groups, k, rec) ==
  IF k > Len(groups) THEN rec
  ELSE LET imgs == groups[k].images
           recommendedCount == Cardinality({n \in 1..Len(imgs) : rec[imgs[n]]})
           rec1 == IF recommendedCount = 0 /\ Len(imgs) > 0
                   THEN [rec EXCEPT ![imgs[1]] = TRUE] ELSE rec
           rec2 == IF recommendedCount >= Len(imgs) /\ Len(imgs) > 0
                   THEN [n \in DOMAIN rec1 |->
                           IF n \in Range(Tail(imgs)) THEN FALSE
                           ELSE IF n = imgs[1] THEN TRUE ELSE rec1[n]]
                   ELSE rec1
       IN verifyFlagsFrom(groups, k + 1, rec2)

\* bulkDelete: the paths of all but the first image of every group
RECURSIVE bulkDelete(_)
bulkDelete(groups) ==
  IF groups = <<>> THEN <<>>
  ELSE LET rest == Tail(Head(groups).images)
       IN [n \in 1..Len(rest) |-> images[rest[n]].path]
          \o bulkDelete(Tail(groups))

\* --------------------------------------------------------- detectDuplicates
\* phases 1 and 2: exact groups for the keys more than one image has, the
\* other images handed to the similarity pass
StartDetect ==
  /\ dpc = "idle"
  /\ LET hashGroups == groupByHash(images)
         exact == {g \in 1..Len(hashGroups) : Len(hashGroups[g]) > 1}
         unique == {g \in 1..Len(hashGroups) : Len(hashGroups[g]) = 1}
         pick(S) == [g \in 1..Len(hashGroups) |-> g \in S]
         RECURSIVE collect(_, _)
         collect(g, keep) ==
           IF g > Len(hashGroups) THEN <<>>
           ELSE (IF keep[g] THEN <<hashGroups[g]>> ELSE <<>>)
                \o collect(g + 1, keep)
         exactSeq == collect(1, pick(exact))
         uniqueSeq == collect(1, pick(unique))
     IN /\ duplicateGroups' =
             [g \in 1..Len(exactSeq) |-> exactGroup(exactSeq[g])]
        /\ uniqueImages' = [g \in 1..Len(uniqueSeq) |-> uniqueSeq[g][1]]
        /\ dpc' = IF Len(uniqueSeq) > 1 THEN "seed" ELSE "ranking"
  /\ seed' = 1
  /\ cand' = 0
  /\ similarImages' = <<>>
  /\ processed' = {}
  /\ similarGroups' = <<>>
  /\ UNCHANGED <<images, qualityScore, recommended, configured, detectReply, comparison,
                 safetyVars, pureVars>>

\* for i: an image an earlier cluster absorbed is passed over
SeedSkip ==
  /\ dpc = "seed"
  /\ seed <= Len(uniqueImages)
  /\ seed \in processed
  /\ seed' = seed + 1
  /\ UNCHANGED <<images, dpc, duplicateGroups, uniqueImages, cand,
                 similarImages, processed, similarGroups, qualityScore,
                 recommended, configured, detectReply, comparison,
                 safetyVars, pureVars>>

\* for i: the next unprocessed image seeds a cluster
SeedStart ==
  /\ dpc = "seed"
  /\ seed <= Len(uniqueImages)
  /\ seed \notin processed
  /\ similarImages' = <<uniqueImages[seed]>>
  /\ processed' = processed \cup {seed}
  /\ cand' = seed + 1
  /\ dpc' = "scan"
  /\ UNCHANGED <<images, duplicateGroups, uniqueImages, seed, similarGroups,
                 qualityScore, recommended, configured, detectReply, comparison,
                 safetyVars, pureVars>>

\* for j: an image already absorbed is passed over
CandSkip ==
  /\ dpc = "scan"
  /\ comparison = <<>>
  /\ cand <= Len(uniqueImages)
  /\ cand \in processed
  /\ cand' = cand + 1
  /\ UNCHANGED <<images, dpc, duplicateGroups, uniqueImages, seed,
                 similarImages, processed, similarGroups, qualityScore,
                 recommended, configured, detectReply, comparison,
                 safetyVars, pureVars>>

\* mutant of Compare: no catch block, an error raised in the try block ends
\* the pass
CompareAborts ==
  /\ dpc = "scan"
  /\ cand <= Len(uniqueImages)
  /\ cand \notin processed
  /\ comparison = <<>>
  /\ \E consensus \in ConsensusResults, callbackRaises \in BOOLEAN :
       /\ comparison' = <<[consensus |-> consensus,
                           raised |-> callbackRaises,
                           localSimilarity |-> <<>>]>>
       /\ dpc' = IF callbackRaises THEN "failed" ELSE dpc
       /\ LET matched ==
                /\ AtLeast(consensus.similarity, similarityThreshold)
                /\ AtLeast(consensus.confidence, minConfidence)
          IN /\ similarImages' = IF matched
                                 THEN Append(similarImages, uniqueImages[cand])
                                 ELSE similarImages
             /\ processed' = IF matched
                             THEN processed \cup {cand} ELSE processed
  /\ UNCHANGED <<images, duplicateGroups, uniqueImages, seed, cand,
                 similarGroups, qualityScore, recommended, configured,
                 detectReply, safetyVars, pureVars>>

\* for j: one comparison.  The try block absorbs compareImage on a matching
\* consensus and then reports progress; when the progress callback raises
\* (the window that receives it is gone), the catch block falls back to the
\* perceptual hash and absorbs compareImage on its own answer
Compare ==
  /\ dpc = "scan"
  /\ cand <= Len(uniqueImages)
  /\ cand \notin processed
  /\ comparison = <<>>
  /\ \E consensus \in ConsensusResults, callbackRaises \in BOOLEAN,
        localSimilarity \in HashSimilarities :
       \* the fallback's answer exists only when the catch block runs
       /\ comparison' = <<[consensus |-> consensus,
                           raised |-> callbackRaises,
                           localSimilarity |->
                             IF callbackRaises THEN <<localSimilarity>>
                             ELSE <<>>]>>
       /\ LET matched ==
                /\ AtLeast(consensus.similarity, similarityThreshold)
                /\ AtLeast(consensus.confidence, minConfidence)
              afterTry == IF matched
                          THEN Append(similarImages, uniqueImages[cand])
                          ELSE similarImages
              fallback == /\ callbackRaises
                          /\ AtLeast(localSimilarity, similarityThreshold)
          IN /\ similarImages' = IF fallback
                                 THEN Append(afterTry, uniqueImages[cand])
                                 ELSE afterTry
             /\ processed' = IF matched \/ fallback
                             THEN processed \cup {cand} ELSE processed
  /\ UNCHANGED <<images, dpc, duplicateGroups, uniqueImages, seed, cand,
                 similarGroups, qualityScore, recommended, configured, detectReply,
                 safetyVars, pureVars>>

\* for j: the comparison is over, j++
NextCand ==
  /\ dpc = "scan"
  /\ comparison # <<>>
  /\ cand' = cand + 1
  /\ comparison' = <<>>
  /\ UNCHANGED <<images, dpc, duplicateGroups, uniqueImages, seed,
                 similarImages, processed, similarGroups, qualityScore,
                 recommended, configured, detectReply, safetyVars, pureVars>>

\* after the j loop: a cluster of more than one image becomes a group
CloseCluster ==
  /\ dpc = "scan"
  /\ cand > Len(uniqueImages)
  /\ similarGroups' = IF Len(similarImages) > 1
                      THEN Append(similarGroups, aiGroup(similarImages))
                      ELSE similarGroups
  /\ seed' = seed + 1
  /\ dpc' = "seed"
  /\ UNCHANGED <<images, duplicateGroups, uniqueImages, cand, similarImages,
                 processed, qualityScore, recommended, configured, detectReply,
                 comparison, safetyVars, pureVars>>

\* after the i loop: duplicateGroups.push(...aiGroups)
ClusteringDone ==
  /\ dpc = "seed"
  /\ seed > Len(uniqueImages)
  /\ duplicateGroups' = duplicateGroups \o similarGroups
  /\ dpc' = "ranking"
  /\ UNCHANGED <<images, uniqueImages, seed, cand, similarImages, processed,
                 similarGroups, qualityScore, recommended, configured, detectReply,
                 comparison, safetyVars, pureVars>>

\* phase 4, rankImagesWithML: score every grouped image, sort every group,
\* flag its first image
rankImagesWithML ==
  /\ dpc = "ranking"
  /\ LET grouped == UNION {Range(duplicateGroups[g].images) :
                             g \in 1..Len(duplicateGroups)}
         score == [k \in grouped |-> calculateQualityScore(images[k])]
         sorted == [g \in 1..Len(duplicateGroups) |->
                      [duplicateGroups[g] EXCEPT
                         !.images = sortByScore(@, score)]]
     IN /\ qualityScore' = score
        /\ duplicateGroups' = sorted
        /\ recommended' =
             [k \in DOMAIN recommended |->
                recommended[k] \/ \E g \in 1..Len(sorted) :
                                     sorted[g].images[1] = k]
  /\ dpc' = "verifying"
  /\ UNCHANGED <<images, uniqueImages, seed, cand, similarImages, processed,
                 similarGroups, configured, detectReply, comparison, safetyVars, pureVars>>

\* phase 5, verifySafetyBeforeReturn, and the return of duplicateGroups
verifySafetyBeforeReturn ==
  /\ dpc = "verifying"
  /\ recommended' = verifyFlagsFrom(duplicateGroups, 1, recommended)
  /\ duplicateGroups' = [g \in 1..Len(duplicateGroups) |->
                           [duplicateGroups[g] EXCEPT !.safetyVerified = TRUE]]
  /\ dpc' = "done"
  /\ UNCHANGED <<images, uniqueImages, seed, cand, similarImages, processed,
                 similarGroups, qualityScore, configured, detectReply, comparison,
                 safetyVars, pureVars>>

\* the checks performSafetyChecks pushes for one group
groupChecks(group, rec) ==
  LET recommendedCount ==
        Cardinality({n \in 1..Len(group.images) : rec[group.images[n]]})
      totalFiles == Len(group.images)
      nonRecommended ==
        Cardinality({n \in 1..Len(group.images) : ~rec[group.images[n]]})
  IN << [check |-> "recommended-file-exists", passed |-> recommendedCount >= 1],
        [check |-> "not-deleting-all", passed |-> nonRecommended < totalFiles] >>

RECURSIVE allGroupChecks(_, _)
allGroupChecks(groups, rec) ==
  IF groups = <<>> THEN <<>>
  ELSE groupChecks(Head(groups), rec) \o allGroupChecks(Tail(groups), rec)

\* group.images.map(img => img.path), group after group
RECURSIVE allFiles(_)
allFiles(groups) ==
  IF groups = <<>> THEN <<>> ELSE Head(groups).images \o allFiles(Tail(groups))

\* checks.filter(check => !check.passed).map(c => c.check)
RECURSIVE failedCheckNames(_)
failedCheckNames(checks) ==
  IF checks = <<>> THEN <<>>
  ELSE (IF Head(checks).passed THEN <<>> ELSE <<Head(checks).check>>)
       \o failedCheckNames(Tail(checks))

\* safety checks that return although a check failed
safetyChecksVerdictLenient(checks) == TRUE

\* checks.every(check => check.passed)
safetyChecksVerdict(checks) ==
  \A n \in 1..Len(checks) : checks[n].passed

\* the end of the detect-duplicates handler: performSafetyChecks on the
\* groups, with the image files that are gone by now chosen by the file
\* system; the handler returns the groups when the checks passed and
\* rethrows their error otherwise
performSafetyChecks ==
  /\ dpc = "done"
  /\ \E gone \in SUBSET Range(allFiles(duplicateGroups)) :
       LET files == allFiles(duplicateGroups)
           missing == {n \in 1..Len(files) : files[n] \in gone}
           fileVerification ==
             [total |-> Len(files), existing |-> Len(files) - Cardinality(missing),
              verified |-> missing = {}]
           checks == allGroupChecks(duplicateGroups, recommended)
                     \o <<[check |-> "files-exist",
                           passed |-> fileVerification.verified]>>
           allPassed == safetyChecksVerdict(checks)
       IN /\ detectReply' =
               <<[passed |-> allPassed,
                  checks |-> checks,
                  fileVerification |-> fileVerification,
                  error |-> IF allPassed THEN <<>> ELSE failedCheckNames(checks),
                  groups |-> IF allPassed THEN duplicateGroups ELSE <<>>]>>
          /\ dpc' = IF allPassed THEN "returned" ELSE "raised"
  /\ UNCHANGED <<images, duplicateGroups, uniqueImages, seed, cand,
                 similarImages, processed, similarGroups, qualityScore,
                 recommended, configured, comparison, safetyVars, pureVars>>

\* groups of at most two images each, images in at most one group
CheckedGroups(n) ==
  LET imageLists == {<<>>} \cup {<<a>> : a \in 1..n}
                    \cup {<<a, b>> : a, b \in 1..n}
  IN {gs \in SeqsUpTo(imageLists, 2) :
        /\ \A g \in 1..Len(gs) : Len(gs[g]) = Cardinality(Range(gs[g]))
        /\ \A g1, g2 \in 1..Len(gs) :
             g1 # g2 => Range(gs[g1]) \cap Range(gs[g2]) = {}}

\* performSafetyChecks called on groups of any shape, with any flags
InitChecks ==
  /\ \E n \in 0..NChecked :
       /\ images = [k \in 1..n |-> ScannedImage(k, "h1", 1)]
       /\ recommended \in [1..n -> BOOLEAN]
       /\ \E gs \in CheckedGroups(n) :
            duplicateGroups = [g \in 1..Len(gs) |-> exactGroup(gs[g])]
  /\ dpc = "done"
  /\ uniqueImages = <<>>
  /\ seed = 0
  /\ cand = 0
  /\ similarImages = <<>>
  /\ processed = {}
  /\ similarGroups = <<>>
  /\ qualityScore = <<>>
  /\ configured = {}
  /\ comparison = <<>>
  /\ detectReply = <<>>
  /\ fs = [p \in Paths |-> Absent]
  /\ HandlersIdle
  /\ NoPureCall

\* a detection pass over the records of one scan
InitDetect ==
  /\ \E n \in 0..NImages :
       \E hs \in [1..n -> Hashes], ss \in [1..n -> Sizes] :
         /\ images = [k \in 1..n |-> ScannedImage(k, hs[k], ss[k])]
         /\ recommended = [k \in 1..n |-> FALSE]
  /\ dpc = "idle"
  /\ duplicateGroups = <<>>
  /\ uniqueImages = <<>>
  /\ seed = 0
  /\ cand = 0
  /\ similarImages = <<>>
  /\ processed = {}
  /\ similarGroups = <<>>
  /\ qualityScore = <<>>
  /\ configured \in Configurations
  /\ comparison = <<>>
  /\ detectReply = <<>>
  /\ fs = [p \in Paths |-> Absent]
  /\ HandlersIdle
  /\ NoPureCall

\* ages of a file at ranking time, in units of 73 days: modified today, 73
\* days ago, 292 days ago, a year ago, more than a year ago
Ages == {0, 1, 4, 5, 6}

\* a detection pass over byte-identical copies that differ in their
\* modification time only
InitRank ==
  /\ \E n \in 2..NRanked :
       \E ages \in [1..n -> Ages] :
         /\ images = [k \in 1..n |->
                        [ScannedImage(k, "h1", 1) EXCEPT !.modified = ages[k]]]
         /\ recommended = [k \in 1..n |-> FALSE]
  /\ dpc = "idle"
  /\ duplicateGroups = <<>>
  /\ uniqueImages = <<>>
  /\ seed = 0
  /\ cand = 0
  /\ similarImages = <<>>
  /\ processed = {}
  /\ similarGroups = <<>>
  /\ qualityScore = <<>>
  /\ configured = {}
  /\ comparison = <<>>
  /\ detectReply = <<>>
  /\ fs = [p \in Paths |-> Absent]
  /\ HandlersIdle
  /\ NoPureCall

\* ---------------------------------------------------------- specifications
\* the delete-files handler, every file operation succeeding
DeleteWorkflow ==
  \/ StartDelete \/ BackupExists \/ BackupCopy \/ BackupVerify \/ BackupFinish
  \/ VerifyStep \/ VerifyFinish
  \/ DeleteImport \/ DeleteExists \/ DeleteTrash \/ DeleteLog \/ DeleteFinish

\* file operations of the delete-files handler that raise
DeleteFaults == DeleteImportRaise \/ DeleteTrashRaise \/ DeleteLogRaise

\* the restore-backup handler, every file operation succeeding
RestoreWorkflow ==
  \/ StartRestore \/ RestoreExists \/ RestoreCopy \/ RestoreVerify
  \/ RestoreFinish

Next == DeleteWorkflow \/ DeleteFaults \/ ExtWrite \/ ExtRemove

\* the delete-files handler next to other programs that create, change and
\* remove files, on a file system whose operations may raise
Spec == Init /\ [][Next]_vars

NextSeq == DeleteWorkflow \/ RestoreWorkflow

\* delete-files, then restore-backup, alone on a file system whose operations
\* succeed
SpecSeq == Init /\ [][NextSeq]_vars

NextRank == StartDetect \/ rankImagesWithML \/ verifySafetyBeforeReturn

\* the ranking of one exact group
SpecRank == InitRank /\ [][NextRank]_vars

\* performSafetyChecks on its own
SpecChecks == InitChecks /\ [][performSafetyChecks]_vars

NextStop == DeleteWorkflow \/ EmergencyStop

\* the delete-files handler, with the user pressing emergency stop
SpecStop == Init /\ [][NextStop]_vars

NextDetect ==
  \/ StartDetect
  \/ SeedSkip
  \/ SeedStart
  \/ CandSkip
  \/ Compare
  \/ NextCand
  \/ CloseCluster
  \/ ClusteringDone
  \/ rankImagesWithML
  \/ verifySafetyBeforeReturn
  \/ performSafetyChecks

\* one detect-duplicates pass
SpecDetect == InitDetect /\ [][NextDetect]_vars

\* ------------------------------------------------------------------ claims
\* the manifest the running handler's backup wrote
manifest == backupDirs[backupId].manifest

\* path has an entry in the manifest whose copy has the source's digest
HasVerifiedEntry(path) ==
  /\ manifest.written
  /\ \E i \in 1..Len(manifest.files) :
       /\ manifest.files[i].originalPath = path
       /\ manifest.files[i].verified
       /\ manifest.files[i].hash =
            calculateFileHash(backupDirs[backupId].files[manifest.files[i].backupPath])

\* C1: every path handed to deleteFiles has a verified entry in the manifest
\* of the backup made for that batch, whatever other programs create or
\* remove between the backup, the existence check and the deletion.
C1_DeletedPathsAreBackedUp ==
  pc = "deleting" =>
    \A i \in 1..Len(filesToDelete) : HasVerifiedEntry(filesToDelete[i])

\* C2: createPreDeletionBackup never returns a backup id when a copy's digest
\* differs from its source's: every entry of a finished backup has the digest
\* of its copy, and on a mismatch the handler has raised, no manifest is
\* written, no 'completed' entry is logged and no file was deleted.
C2_NoSuccessOnMismatch ==
  /\ pc \in {"verifying", "deleting", "completed"} =>
       /\ ~mismatch
       /\ manifest.written
       /\ \A i \in 1..Len(copiedFiles) :
            copiedFiles[i].hash =
              calculateFileHash(backupDirs[backupId].files[copiedFiles[i].backupPath])
  /\ mismatch =>
       /\ pc = "failed"
       /\ ~manifest.written
       /\ \A i \in 1..Len(operationLog) : operationLog[i].status # "completed"
       /\ results.deleted = <<>>
       /\ trashBin = <<>>

C2_Witness ==
  /\ mismatch
  /\ pc = "failed"
  /\ Len(copiedFiles) = 1

\* what the phase order allows in one step of the handler
PhaseStep(from, to) ==
  \/ from = to
  \/ from = "idle" /\ to = "backing-up"
  \/ from = "backing-up" /\ to \in {"verifying", "failed"}
  \/ from = "verifying" /\ to \in {"deleting", "failed"}
  \/ from = "deleting" /\ to \in {"completed", "failed"}

\* the backup and the existence check have both finished successfully
BackupAndVerifyDone ==
  /\ manifest.written
  /\ \E i \in 1..Len(operationLog) :
       /\ operationLog[i].operation = "pre-deletion-backup"
       /\ operationLog[i].backupId = backupId
       /\ operationLog[i].status = "completed"
  /\ Len(seen) = Len(filesToDelete)
  /\ verification.verified

\* C3: a delete-files workflow goes through backing-up, verifying, deleting in
\* that order, is in the deleting phase (or has completed) only after the
\* backup and the existence check both succeeded, ends completed or failed and
\* stays there, and never stops in between.
C3_PhaseOrder ==
  /\ [][/\ PhaseStep(pc, pc')
        /\ pc' \in {"deleting", "completed"} => BackupAndVerifyDone'
        /\ pc \in {"completed", "failed"} => pc' = pc]_vars
  /\ [](pc \in {"backing-up", "verifying", "deleting"} =>
         ENABLED (DeleteWorkflow \/ DeleteFaults))

C3_Witness ==
  /\ pc = "completed"
  /\ Len(results.deleted) = 2

\* the paths of paths[1..Len(obs)] whose observation was "absent", in order
AbsentPaths(paths, obs) ==
  LET F[i \in 0..Len(obs)] ==
        IF i = 0 THEN <<>>
        ELSE IF obs[i] THEN F[i - 1] ELSE Append(F[i - 1], paths[i])
  IN F[Len(obs)]

\* C4: verifyFilesExist answers verified = false iff some path was absent,
\* lists exactly the absent paths in missing, and existing + |missing| is the
\* number of paths checked (total at the end); when verified is false the
\* handler raises and no file of the batch is deleted.
C4_VerifyAllOrNothing ==
  /\ verification.verified = (\A i \in 1..Len(seen) : seen[i])
  /\ verification.missing = AbsentPaths(filesToDelete, seen)
  /\ verification.existing + Len(verification.missing) = Len(seen)
  /\ pc \in {"deleting", "completed"} =>
       Len(seen) = verification.total
  /\ ~verification.verified =>
       /\ pc \in {"verifying", "failed"}
       /\ results.deleted = <<>>
       /\ trashBin = <<>>

C4_Witness ==
  /\ pc = "failed"
  /\ ~verification.verified
  /\ verification.total = 2
  /\ verification.existing = 1
  /\ Len(verification.missing) = 1

\* a delete-files run that completed, followed by a finished restore of its
\* backup
RoundTripDone ==
  /\ pc = "restored"
  /\ results.total = Len(filesToDelete)

\* C5: after a backup that succeeded, the deletion of the batch and a restore
\* of that backup, every path of the batch exists again with the content it
\* had when it was deleted, and the restore reports no failed entry.
C5_RoundTrip ==
  RoundTripDone =>
    /\ \A i \in 1..Len(filesToDelete) : fs[filesToDelete[i]] # Absent
    /\ \A i \in 1..Len(trashBin) : fs[trashBin[i].path] = trashBin[i].data
    /\ failed = <<>>
    /\ Range(restored) = Range(filesToDelete)
    /\ operationLog[Len(operationLog)].status = "completed"

C5_Witness ==
  /\ RoundTripDone
  /\ filesToDelete = <<"a/x.jpg", "b/x.jpg">>
  /\ Len(trashBin) = 2
  /\ fs["a/x.jpg"] # fs["b/x.jpg"]

\* ------------------------------------------------------ claims: detection
groupImages(g) == duplicateGroups[g].images
ExactGroups ==
  {g \in 1..Len(duplicateGroups) : duplicateGroups[g].type = "exact"}
\* the input images filed under content digest h
WithKey(h) == {k \in 1..Len(images) : images[k].hash = h}
\* the entries of group g that carry recommended = true
RecommendedEntries(g) ==
  {n \in 1..Len(groupImages(g)) : recommended[groupImages(g)[n]]}

\* C6: every group detectDuplicates returns has at least two images and
\* exactly one of its images carries recommended = true.
C6_GroupsWellFormed ==
  dpc = "done" =>
    \A g \in 1..Len(duplicateGroups) :
      /\ Len(groupImages(g)) >= 2
      /\ Cardinality(RecommendedEntries(g)) = 1

\* C7: the deletion list built from the returned groups (all but the first
\* image of every group) holds no image whose recommended flag is true.
C7_RecommendedNotDeleted ==
  dpc = "done" =>
    \A k \in 1..Len(images) :
      recommended[k] => images[k].path \notin Range(bulkDelete(duplicateGroups))

\* C8: there is an exact group (similarity 1.0, confidence 'absolute') for
\* exactly the content digests that two or more input images share; it holds
\* all and only the images with that digest, and an image whose digest is
\* unique is in no exact group.
C8_ExactGroupsPerSharedDigest ==
  dpc # "idle" =>
    /\ \A h \in Hashes :
         Cardinality(WithKey(h)) >= 2 =>
           Cardinality({g \in ExactGroups :
                          /\ Range(groupImages(g)) = WithKey(h)
                          /\ Len(groupImages(g)) = Cardinality(WithKey(h))}) = 1
    /\ \A g \in ExactGroups :
         /\ duplicateGroups[g].similarity = Frac(1, 1)
         /\ duplicateGroups[g].confidence = "absolute"
         /\ \E h \in Hashes : /\ Cardinality(WithKey(h)) >= 2
                              /\ Range(groupImages(g)) = WithKey(h)
    /\ \A h \in Hashes :
         Cardinality(WithKey(h)) = 1 =>
           \A g \in ExactGroups : WithKey(h) \cap Range(groupImages(g)) = {}

\* a, b identical and c different: one exact group {a, b}, c ungrouped
C8_Witness ==
  /\ dpc = "done"
  /\ Len(images) = 3
  /\ images[1].hash = images[2].hash
  /\ images[3].hash # images[1].hash
  /\ Len(duplicateGroups) = 1
  /\ duplicateGroups[1].type = "exact"
  /\ Range(groupImages(1)) = {1, 2}

\* C9: two records whose byte sizes differ are never in the same exact
\* group.
C9_SizeMismatchNeverGroups ==
  \A g \in ExactGroups :
    \A a, b \in Range(groupImages(g)) : images[a].size = images[b].size

\* C10: the returned groups are pairwise disjoint and no image occurs twice
\* inside a group.
C10_NoImageInTwoGroups ==
  dpc = "done" =>
    /\ \A g \in 1..Len(duplicateGroups) :
         Cardinality(Range(groupImages(g))) = Len(groupImages(g))
    /\ \A g1, g2 \in 1..Len(duplicateGroups) :
         g1 # g2 => Range(groupImages(g1)) \cap Range(groupImages(g2)) = {}

\* the test of the try block on a consensus
Matches(consensus) ==
  /\ AtLeast(consensus.similarity, similarityThreshold)
  /\ AtLeast(consensus.confidence, minConfidence)
\* the comparison just made absorbed compareImage
Absorbed == dpc = "scan" /\ comparison # <<>> /\ cand \in processed
\* the local answer inside a consensus (always its last individual result)
localAnswer(consensus) ==
  consensus.individualResults[Len(consensus.individualResults)]

\* C11: an image is absorbed into a cluster only if the pair's consensus
\* similarity is at least 0.92 and its consensus confidence at least 0.90,
\* on every path through the comparison.
C11_AbsorbOnlyOnMatch ==
  Absorbed => Matches(comparison[1].consensus)

\* C12: with no provider configured, a pair for which every local method
\* answers 1.0 is declared a match by the consensus and joins the seed's
\* cluster.
C12_LocalOnlyDetects ==
  ( /\ configured = {}
    /\ dpc = "scan"
    /\ comparison # <<>>
    /\ localAnswer(comparison[1].consensus).similarity = Frac(1, 1) )
  => /\ Matches(comparison[1].consensus)
     /\ uniqueImages[cand] \in Range(similarImages)

\* ------------------------------------------------- claims: restore, deletion
\* the originalPath of every manifest entry, in manifest order
manifestPaths ==
  [n \in 1..Len(manifestFiles) |-> manifestFiles[n].originalPath]
\* a restore-backup call made after an earlier one returned
SecondRestore == RestoreCalls >= 1 /\ backupId \in DOMAIN backupDirs

\* C13: a second restoreFromBackup of the same backup changes no file, raises
\* no error and reports every file of the manifest as restored.
C13_RestoreIdempotent ==
  /\ [][(pc = "restoring" /\ SecondRestore) => fs' = fs]_vars
  /\ []((pc = "restoring" /\ SecondRestore) => failed = <<>>)
  /\ []((pc = "restored" /\ RestoreCalls >= 2) =>
          /\ failed = <<>>
          /\ restored = manifestPaths
          /\ operationLog[Len(operationLog)].status = "completed")
  /\ [][(pc = "restored" /\ RestoreCalls < MaxRestores) =>
          pc' # "restore-failed"]_vars

\* both files of a batch deleted, restored, and restored a second time
C13_Witness ==
  /\ pc = "restored"
  /\ RestoreCalls = 2
  /\ Len(trashBin) = 2
  /\ Len(restored) = 2

\* ------------------------------------------------------ claims: emergencyStop
\* the emergency-stop entries of the operation log
StopEntries ==
  {n \in 1..Len(operationLog) : operationLog[n].operation = "emergency-stop"}

\* C14: after an emergency stop invoked while a batch is being deleted, no
\* file of the batch whose deletion had not started is deleted, and the batch
\* does not end as completed.
C14_StopHaltsBatch ==
  \A n \in StopEntries :
    operationLog[n].during = "deleting" =>
      /\ Len(results.deleted) <= operationLog[n].started
      /\ pc # "completed"

\* C15: emergencyStop can be called in every state; every call appends an
\* 'emergency-stop' entry to the operation log and is answered with
\* stopped = true.
C15_StopNeverSilent ==
  /\ Len(stopReplies) < MaxStops => ENABLED EmergencyStop
  /\ Cardinality(StopEntries) = Len(stopReplies)
  /\ \A n \in 1..Len(stopReplies) : stopReplies[n].stopped

\* a stop pressed while the second file of a batch is being deleted
C15_Witness ==
  /\ Len(stopReplies) = 1
  /\ \E n \in StopEntries : /\ operationLog[n].during = "deleting"
                            /\ operationLog[n].started = 2

\* ------------------------------------------------------ claims: deleteFiles
\* how often path p occurs in the sequence of paths s
Occurrences(s, p) == Cardinality({n \in 1..Len(s) : s[n] = p})
failedPaths == [n \in 1..Len(results.failed) |-> results.failed[n].path]

\* C16: deleteFiles returns total = |paths| and puts every occurrence of an
\* input path in exactly one of deleted and failed, so that
\* |deleted| + |failed| = total.
C16_DeleteAccounting ==
  pc = "completed" =>
    /\ results.total = Len(filesToDelete)
    /\ Len(results.deleted) + Len(results.failed) = results.total
    /\ \A p \in Paths :
         Occurrences(results.deleted, p) + Occurrences(failedPaths, p)
           = Occurrences(filesToDelete, p)

tailPaths(g) ==
  [n \in 1..(Len(groupImages(g)) - 1) |-> images[groupImages(g)[n + 1]].path]
RECURSIVE tailPathsFrom(_)
tailPathsFrom(g) ==
  IF g > Len(duplicateGroups) THEN <<>>
  ELSE tailPaths(g) \o tailPathsFrom(g + 1)

\* C18: bulkDelete returns, in group order and in-group order, the paths of
\* all images of every group but its first; a group contributes size - 1
\* paths and the first image of a group is never in the result.
C18_BulkDeleteList ==
  dpc = "done" =>
    LET filesToDeleteList == bulkDelete(duplicateGroups)
    IN /\ filesToDeleteList = tailPathsFrom(1)
       /\ \A g \in 1..Len(duplicateGroups) :
            images[groupImages(g)[1]].path \notin Range(filesToDeleteList)

\* ----------------------------------------------------------- claims: ranking
\* the position of image k in group g
positionIn(g, k) == CHOOSE n \in 1..Len(groupImages(g)) : groupImages(g)[n] = k
\* images a and b differ in nothing the score looks at but the modification
\* time
SameButModified(a, b) ==
  /\ images[a].resolution = images[b].resolution
  /\ images[a].format = images[b].format
  /\ images[a].size = images[b].size
  /\ Len(images[a].path) = Len(images[b].path)
  /\ images[a].modified # images[b].modified

\* C19: of two images of a group that differ in their modification time
\* only, the ranking places the more recently modified one first.
C19_RecentRanksFirst ==
  dpc \in {"verifying", "done"} =>
    \A g \in 1..Len(duplicateGroups) :
      \A a, b \in Range(groupImages(g)) :
        (SameButModified(a, b) /\ images[a].modified < images[b].modified)
          => positionIn(g, a) < positionIn(g, b)

\* ------------------------------------------------ claims: performSafetyChecks
\* some group has no recommended image
SomeGroupWithoutRecommended ==
  \E g \in 1..Len(duplicateGroups) : RecommendedEntries(g) = {}
\* some group's count of images that are not recommended is not below its size
SomeGroupDeletingAll ==
  \E g \in 1..Len(duplicateGroups) :
    Len(groupImages(g)) - Cardinality(RecommendedEntries(g))
      >= Len(groupImages(g))
\* some referenced file no longer exists
SomeFileGone ==
  detectReply[1].fileVerification.existing
    < detectReply[1].fileVerification.total

\* C20: performSafetyChecks raises, naming the failed checks, exactly when a
\* group has no recommended image, or a group's count of non-recommended
\* images is not below its size, or a referenced file is gone; otherwise it
\* passes, and only then do the groups reach the caller of detect-duplicates.
C20_SafetyChecksGate ==
  dpc \in {"returned", "raised"} =>
    /\ dpc = "raised" <=>
         (SomeGroupWithoutRecommended \/ SomeGroupDeletingAll \/ SomeFileGone)
    /\ dpc = "raised" =>
         /\ detectReply[1].error # <<>>
         /\ "recommended-file-exists" \in Range(detectReply[1].error)
              <=> SomeGroupWithoutRecommended
         /\ "not-deleting-all" \in Range(detectReply[1].error)
              <=> SomeGroupDeletingAll
         /\ "files-exist" \in Range(detectReply[1].error) <=> SomeFileGone
         /\ detectReply[1].groups = <<>>
    /\ dpc = "returned" =>
         /\ detectReply[1].passed
         /\ detectReply[1].groups = duplicateGroups

\* a group with its recommended image, one of whose files has gone
C20_Witness ==
  /\ dpc = "raised"
  /\ Len(duplicateGroups) = 1
  /\ Cardinality(RecommendedEntries(1)) = 1
  /\ detectReply[1].error = <<"files-exist">>

\* ------------------------------------------------ the local similarity methods
\* An image file as the four local methods see it: whether jimp can read it,
\* its pixels as equal blocks of one grey level each (r = g = b), the pixels
\* one block covers at the file's own size, and the x coordinates of its edge
\* points on one row.
Greys == {0, 255}
Blocks == 2
Areas == {128, 512}
KeyPointXs == {0, 5, 20}

ImageFiles ==
  [readable : BOOLEAN,
   blocks : [1..Blocks -> Greys],
   area : Areas,
   keypoints : SUBSET KeyPointXs]

RECURSIVE SumBlocks(_, _)
SumBlocks(f, k) == IF k = 0 THEN 0 ELSE f[k] + SumBlocks(f, k - 1)

Abs(x) == IF x < 0 THEN -x ELSE x

\* generatePerceptualHash: one bit per pixel of the resized image, set where
\* the pixel is brighter than the average
generatePerceptualHash(file) ==
  [k \in 1..Blocks |->
     IF file.blocks[k] * Blocks > SumBlocks(file.blocks, Blocks) THEN 1 ELSE 0]

\* calculateHashSimilarity: the share of positions where the bits agree
calculateHashSimilarity(hash1, hash2) ==
  IF Len(hash1) # Len(hash2) THEN Frac(0, 1)
  ELSE Norm(Frac(Cardinality({k \in 1..Len(hash1) : hash1[k] = hash2[k]}),
                 Len(hash1)))

\* calculatePerceptualHash: a file that cannot be read makes the method
\* answer 0
calculatePerceptualHash(file1, file2) ==
  IF ~file1.readable \/ ~file2.readable THEN Frac(0, 1)
  ELSE calculateHashSimilarity(generatePerceptualHash(file1),
                               generatePerceptualHash(file2))

\* calculateStructuralSimilarity: 1 - average pixel distance / largest
\* distance; on grey pixels the distance is sqrt(3) * |difference| and the
\* largest is sqrt(3) * 255
calculateStructuralSimilarity(file1, file2) ==
  IF ~file1.readable \/ ~file2.readable THEN Frac(0, 1)
  ELSE LET totalDiff ==
             SumBlocks([k \in 1..Blocks |->
                          Abs(file1.blocks[k] - file2.blocks[k])], Blocks)
       IN Norm(Frac(255 * Blocks - totalDiff, 255 * Blocks))

\* generateHistogram: per channel, how many pixels of the file have each
\* level; the three channels of a grey image are alike
generateHistogram(file) ==
  [v \in Greys |->
     file.area * Cardinality({k \in 1..Blocks : file.blocks[k] = v})]

RECURSIVE SumMin(_, _, _)
SumMin(hist1, hist2, levels) ==
  IF levels = {} THEN 0
  ELSE LET v == CHOOSE x \in levels : TRUE
       IN Min(hist1[v], hist2[v]) + SumMin(hist1, hist2, levels \ {v})

\* compareHistograms: the minima of the bins of the three channels, summed
\* and divided by 3 * 256
compareHistograms(hist1, hist2) ==
  Norm(Frac(3 * SumMin(hist1, hist2, Greys), 3 * 256))

calculateHistogramSimilarity(file1, file2) ==
  IF ~file1.readable \/ ~file2.readable THEN Frac(0, 1)
  ELSE compareHistograms(generateHistogram(file1), generateHistogram(file2))

\* compareKeyPoints: the key points of the first image with a key point of
\* the second within distance 10, over the larger number of key points
compareKeyPoints(keypoints1, keypoints2) ==
  IF keypoints1 = {} \/ keypoints2 = {} THEN Frac(0, 1)
  ELSE LET matches ==
             Cardinality({kp1 \in keypoints1 :
                            \E kp2 \in keypoints2 : Abs(kp1 - kp2) < 10})
       IN Norm(Frac(matches,
                    Max(Cardinality(keypoints1), Cardinality(keypoints2))))

calculateFeatureMatching(file1, file2) ==
  IF ~file1.readable \/ ~file2.readable THEN Frac(0, 1)
  ELSE compareKeyPoints(file1.keypoints, file2.keypoints)

\* the four answers compareWithAdvancedLocal collects for a pair, and what it
\* makes of them
localMethods(file1, file2) ==
  <<calculatePerceptualHash(file1, file2),
    calculateStructuralSimilarity(file1, file2),
    calculateHistogramSimilarity(file1, file2),
    calculateFeatureMatching(file1, file2)>>

localComparison(file1, file2) ==
  [results |-> localMethods(file1, file2),
   answer |-> compareWithAdvancedLocal(localMethods(file1, file2))]

\* a pair of image files is compared, in the order given and in the other
InitSimilarity ==
  /\ fs \in [Paths -> {Absent}]
  /\ HandlersIdle
  /\ NoDetection
  /\ pureArgs \in ImageFiles \X ImageFiles
  /\ pureResult = <<>>

CompareLocalPair ==
  /\ pureResult = <<>>
  /\ pureResult' = <<[forward |-> localComparison(pureArgs[1], pureArgs[2]),
                      backward |-> localComparison(pureArgs[2], pureArgs[1])]>>
  /\ UNCHANGED <<pureArgs, safetyVars, detectVars>>

SpecSimilarity == InitSimilarity /\ [][CompareLocalPair]_vars

\* C21: each of the hash, structural and histogram methods gives a pair the
\* same value in either order, and so do the local consensus and the decision
\* whether the consensus reaches the similarity threshold.
ThreeMethodsSymmetric ==
  pureResult # <<>> =>
    \A m \in 1..3 :
      pureResult[1].forward.results[m] = pureResult[1].backward.results[m]

C21_SimilaritySymmetric ==
  pureResult # <<>> =>
    /\ \A m \in 1..3 :
         pureResult[1].forward.results[m] = pureResult[1].backward.results[m]
    /\ pureResult[1].forward.answer.similarity
         = pureResult[1].backward.answer.similarity
    /\ AtLeast(pureResult[1].forward.answer.similarity, similarityThreshold)
         <=> AtLeast(pureResult[1].backward.answer.similarity,
                     similarityThreshold)

\* C22: a readable image compared with itself scores exactly 1 under the
\* hash, the structural and the histogram method.
SelfHashAndStructureOne ==
  (pureResult # <<>> /\ pureArgs[1] = pureArgs[2] /\ pureArgs[1].readable) =>
    /\ pureResult[1].forward.results[1] = Frac(1, 1)
    /\ pureResult[1].forward.results[2] = Frac(1, 1)

C22_SelfSimilarityIsOne ==
  (pureResult # <<>> /\ pureArgs[1] = pureArgs[2] /\ pureArgs[1].readable) =>
    \A m \in 1..3 : pureResult[1].forward.results[m] = Frac(1, 1)

\* C23: the manifest a successful createPreDeletionBackup(paths) writes has
\* one entry for each path handed in, in order, each verified and carrying
\* the digest of its copy, and its totalFiles is the number of paths.
C23_ManifestEntryPerPath ==
  (backupId # 0 /\ manifest.written) =>
    /\ manifest.totalFiles = Len(filesToDelete)
    /\ Len(manifest.files) = Len(filesToDelete)
    /\ \A i \in 1..Len(manifest.files) :
         /\ i <= Len(filesToDelete)
         /\ manifest.files[i].originalPath = filesToDelete[i]
         /\ manifest.files[i].verified
         /\ manifest.files[i].hash =
              calculateFileHash(
                backupDirs[backupId].files[manifest.files[i].backupPath])

\* what does hold of it: an entry for each path that was present, and no other
ManifestEntryPerPresentPath ==
  (backupId # 0 /\ manifest.written) =>
    /\ manifest.totalFiles = Len(manifest.files)
    /\ Len(manifest.files) <= Len(filesToDelete)
    /\ \A i \in 1..Len(manifest.files) :
         /\ manifest.files[i].verified
         /\ \E k \in 1..Len(filesToDelete) :
              manifest.files[i].originalPath = filesToDelete[k]

\* verifySafetyBeforeReturn called on non-empty groups of any shape, their
\* images carrying any flags
NVerified == 3

VerifiedGroups(n) ==
  LET imageLists == {il \in SeqsUpTo(1..n, n) :
                       Len(il) > 0 /\ Len(il) = Cardinality(Range(il))}
  IN {gs \in SeqsUpTo(imageLists, 2) :
        \A g1, g2 \in 1..Len(gs) :
          g1 # g2 => Range(gs[g1]) \cap Range(gs[g2]) = {}}

InitVerify ==
  /\ \E n \in 1..NVerified :
       /\ images = [k \in 1..n |-> ScannedImage(k, "h1", 1)]
       /\ recommended \in [1..n -> BOOLEAN]
       /\ \E gs \in VerifiedGroups(n) :
            duplicateGroups = [g \in 1..Len(gs) |-> exactGroup(gs[g])]
  /\ dpc = "verifying"
  /\ uniqueImages = <<>>
  /\ seed = 0
  /\ cand = 0
  /\ similarImages = <<>>
  /\ processed = {}
  /\ similarGroups = <<>>
  /\ qualityScore = <<>>
  /\ configured = {}
  /\ comparison = <<>>
  /\ detectReply = <<>>
  /\ fs = [p \in Paths |-> Absent]
  /\ HandlersIdle
  /\ NoPureCall

SpecVerify == InitVerify /\ [][verifySafetyBeforeReturn]_vars

\* the entries of a group flagged, and not flagged, under flags rec
recommendedCount(group, rec) ==
  Cardinality({n \in 1..Len(group.images) : rec[group.images[n]]})

deletionCandidates(group, rec) ==
  Cardinality({n \in 1..Len(group.images) : ~rec[group.images[n]]})

\* C24: when verifySafetyBeforeReturn has run, every non-empty group has an
\* image flagged recommended and fewer images not flagged than it has images,
\* whatever the flags were before; a group none of whose images was flagged
\* has its first image flagged.
C24_VerifyLeavesARecommended ==
  [][(dpc = "verifying" /\ dpc' = "done") =>
       \A g \in 1..Len(duplicateGroups') :
         LET group == duplicateGroups'[g] IN
         Len(group.images) > 0 =>
           /\ recommendedCount(group, recommended') >= 1
           /\ deletionCandidates(group, recommended') < Len(group.images)
           /\ recommendedCount(duplicateGroups[g], recommended) = 0
                => recommended'[group.images[1]]]_vars

\* a group of three that came in with no image flagged has been verified
C24_Witness ==
  /\ dpc = "done"
  /\ \E g \in 1..Len(duplicateGroups) :
       /\ Len(duplicateGroups[g].images) = 3
       /\ duplicateGroups[g].safetyVerified
       /\ recommendedCount(duplicateGroups[g], recommended) = 1
       /\ recommended[duplicateGroups[g].images[1]]

\* ------------------------------------- aiDetectionSimplified: phases 1 and 2
NSimple == 3

\* the files behind the records handed to detectDuplicates: whether stat and
\* readFile succeed on the path, the byte size and the content
ScannedFiles == [readable : BOOLEAN, size : Sizes, content : Contents]

\* `${stats.size}-${contentHash}`
combinedHash(file) == <<file.size, <<"md5", file.content>>>>

\* groupByHash of aiDetectionSimplified: the Map's values in insertion order;
\* an image whose file cannot be read is caught and filed nowhere
RECURSIVE simplifiedGroupByHash(_, _, _)
simplifiedGroupByHash(files, k, acc) ==
  IF k > Len(files) THEN acc
  ELSE IF ~files[k].readable THEN simplifiedGroupByHash(files, k + 1, acc)
  ELSE LET known == {g \in 1..Len(acc) :
                       combinedHash(files[acc[g][1]]) = combinedHash(files[k])}
       IN IF known = {}
          THEN simplifiedGroupByHash(files, k + 1, Append(acc, <<k>>))
          ELSE LET g == CHOOSE x \in known : TRUE
               IN simplifiedGroupByHash(files, k + 1,
                                        [acc EXCEPT ![g] = Append(acc[g], k)])

\* phase 2: the Map's entries with more than one image become exact groups,
\* the single images of the others are collected for phase 3
RECURSIVE processHashGroups(_, _, _)
processHashGroups(hashGroups, g, acc) ==
  IF g > Len(hashGroups) THEN acc
  ELSE IF Len(hashGroups[g]) > 1
  THEN processHashGroups(hashGroups, g + 1,
         [acc EXCEPT !.duplicateGroups = Append(@, exactGroup(hashGroups[g]))])
  ELSE processHashGroups(hashGroups, g + 1,
         [acc EXCEPT !.uniqueImages = Append(@, hashGroups[g][1])])

\* detectDuplicates of aiDetectionSimplified up to the call of
\* detectPerceptualSimilarity, made when more than one image is left
simplifiedPhases(files) ==
  LET hashGroups == simplifiedGroupByHash(files, 1, <<>>)
      out == processHashGroups(hashGroups, 1,
               [duplicateGroups |-> <<>>, uniqueImages |-> <<>>])
  IN [hashGroups |-> hashGroups,
      duplicateGroups |-> out.duplicateGroups,
      uniqueImages |-> out.uniqueImages,
      perceptualInput |-> IF Len(out.uniqueImages) > 1
                          THEN <<out.uniqueImages>> ELSE <<>>]

InitSimplified ==
  /\ fs \in [Paths -> {Absent}]
  /\ HandlersIdle
  /\ NoDetection
  /\ \E n \in 0..NSimple : pureArgs \in [1..n -> ScannedFiles]
  /\ pureResult = <<>>

SimplifiedDetect ==
  /\ pureResult = <<>>
  /\ pureResult' = <<simplifiedPhases(pureArgs)>>
  /\ UNCHANGED <<pureArgs, safetyVars, detectVars>>

SpecSimplified == InitSimplified /\ [][SimplifiedDetect]_vars

\* C25: an image whose file cannot be read for hashing is in no exact group,
\* and it is among the images handed to the perceptual-similarity phase when
\* that phase runs.
UnreadableInNoExactGroup ==
  pureResult # <<>> =>
    \A k \in 1..Len(pureArgs) :
      ~pureArgs[k].readable =>
        \A g \in 1..Len(pureResult[1].duplicateGroups) :
          k \notin Range(pureResult[1].duplicateGroups[g].images)

C25_UnreadableStillCompared ==
  (pureResult # <<>> /\ pureResult[1].perceptualInput # <<>>) =>
    \A k \in 1..Len(pureArgs) :
      ~pureArgs[k].readable =>
        /\ \A g \in 1..Len(pureResult[1].duplicateGroups) :
             k \notin Range(pureResult[1].duplicateGroups[g].images)
        /\ k \in Range(pureResult[1].perceptualInput[1])

\* ------------------------------------------- getMultiProviderConsensus alone
\* what the four local methods can answer, every one of them failing included
LocalMethodOutcomes ==
  LocalMethodResults \cup {<<Frac(0, 1), Frac(0, 1), Frac(0, 1), Frac(0, 1)>>}

\* one call: the providers a key is configured for, what each answers, and
\* what the local methods answer
InitConsensus ==
  /\ fs \in [Paths -> {Absent}]
  /\ HandlersIdle
  /\ NoDetection
  /\ \E config \in SUBSET Providers :
       \E replies \in [config -> ProviderReplies],
          methods \in LocalMethodOutcomes :
         pureArgs = [config |-> config, replies |-> replies,
                     methods |-> methods]
  /\ pureResult = <<>>

ConsensusCall ==
  /\ pureResult = <<>>
  /\ pureResult' = <<getMultiProviderConsensus(
                       collectResults(pureArgs.config, pureArgs.replies,
                                      pureArgs.methods))>>
  /\ UNCHANGED <<pureArgs, safetyVars, detectVars>>

SpecConsensus == InitConsensus /\ [][ConsensusCall]_vars

\* the providers whose vote arrived in the call
Voted == {p \in pureArgs.config : pureArgs.replies[p] # "unavailable"}

\* C26: when no provider's vote arrives and every local method fails, the
\* consensus has similarity 0 and confidence 0, and the pair is no match.
NoVoteNoMatch ==
  (pureResult # <<>> /\ Voted = {}
     /\ \A m \in 1..4 : pureArgs.methods[m] = Frac(0, 1)) =>
    /\ pureResult[1].similarity = Frac(0, 1)
    /\ ~Matches(pureResult[1])

C26_FailClosed ==
  (pureResult # <<>> /\ Voted = {}
     /\ \A m \in 1..4 : pureArgs.methods[m] = Frac(0, 1)) =>
    /\ pureResult[1].similarity = Frac(0, 1)
    /\ pureResult[1].confidence = Frac(0, 1)
    /\ ~Matches(pureResult[1])

\* the value a voter contributed: a provider's answer, or the local answer
contributed(voter, field) ==
  IF voter = "local-advanced"
  THEN compareWithAdvancedLocal(pureArgs.methods)[field]
  ELSE IF field = "similarity"
       THEN providerSimilarity(pureArgs.replies[voter])
       ELSE providerConfidence(voter)

\* weights in hundredths: google 0.4, azure 0.35, aws 0.35, local 0.2
weightOf(voter) ==
  CASE voter = "google" -> 40
    [] voter = "azure" -> 35
    [] voter = "aws" -> 35
    [] voter = "local-advanced" -> 20

RECURSIVE SumWeights(_)
SumWeights(voters) ==
  IF voters = {} THEN 0
  ELSE LET v == CHOOSE x \in voters : TRUE
       IN weightOf(v) + SumWeights(voters \ {v})

RECURSIVE SumWeighted(_, _)
SumWeighted(voters, field) ==
  IF voters = {} THEN Frac(0, 1)
  ELSE LET v == CHOOSE x \in voters : TRUE
       IN FracAdd(FracMul(contributed(v, field), Frac(weightOf(v), 1)),
                  SumWeighted(voters \ {v}, field))

SameValue(x, y) == x.num * y.den = y.num * x.den

\* C27: similarity and confidence of the consensus are the weighted means of
\* the values of the voters that answered (the local answer always among
\* them); a provider whose call raised counts in neither sum and the call
\* still returns; both results lie between the smallest and the largest value
\* contributed.
C27_WeightedMeanOfVoters ==
  pureResult # <<>> =>
    LET voters == Voted \cup {"local-advanced"} IN
    \A field \in {"similarity", "confidence"} :
      /\ SameValue(FracMul(pureResult[1][field], Frac(SumWeights(voters), 1)),
                   SumWeighted(voters, field))
      /\ \E v \in voters : AtLeast(pureResult[1][field], contributed(v, field))
      /\ \E v \in voters : AtLeast(contributed(v, field), pureResult[1][field])

\* a call in which one provider raised and another answered has returned
C27_Witness ==
  /\ pureResult # <<>>
  /\ Voted # {}
  /\ pureArgs.config \ Voted # {}
  /\ Len(pureResult[1].individualResults) = Cardinality(Voted) + 1

\* ------------------------------------- restore next to other programs
NextRestoreEnv ==
  \/ DeleteWorkflow
  \/ RestoreWorkflow
  \/ RestoreCopyRaise
  \/ ExtWrite
  \/ ExtRemove

\* delete-files and restore-backup, with other programs creating, changing
\* and removing the user's files at any moment
SpecRestoreEnv == Init /\ [][NextRestoreEnv]_vars

\* the entry restoreFromBackup is at
currentEntry == manifestFiles[idx]

\* what holds whenever other programs act: a file restoreFromBackup finds
\* present at an original path is reported restored and passed over without a
\* write, and the only file the handler writes is the original of the entry
\* it is at, after its test found that original absent
PresentAtTestUntouched ==
  [][(pc = "restoring" /\ extCount' = extCount) =>
       /\ (sub = "exists" /\ idx <= Len(manifestFiles)
             /\ fs[currentEntry.originalPath] # Absent) =>
            /\ fs' = fs
            /\ restored' = Append(restored, currentEntry.originalPath)
            /\ idx' = idx + 1
            /\ sub' = "exists"
       /\ fs' # fs =>
            /\ sub = "copy"
            /\ \A p \in Paths \ {currentEntry.originalPath} : fs'[p] = fs[p]]_vars

\* C28: no step of restoreFromBackup overwrites or changes a file that is
\* present at an original path; only originals that are absent are written.
C28_RestoreNeverOverwrites ==
  [][(pc = "restoring" /\ extCount' = extCount) =>
       \A p \in Paths : fs[p] # Absent => fs'[p] = fs[p]]_vars

\* ------------------------------------------------ the pass, run to its end
NLive == 3

\* a detection pass over the records of one scan, the files all of one size
InitDetectLive ==
  /\ \E n \in 0..NLive :
       \E hs \in [1..n -> Hashes] :
         /\ images = [k \in 1..n |-> ScannedImage(k, hs[k], 1)]
         /\ recommended = [k \in 1..n |-> FALSE]
  /\ dpc = "idle"
  /\ duplicateGroups = <<>>
  /\ uniqueImages = <<>>
  /\ seed = 0
  /\ cand = 0
  /\ similarImages = <<>>
  /\ processed = {}
  /\ similarGroups = <<>>
  /\ qualityScore = <<>>
  /\ configured \in Configurations
  /\ comparison = <<>>
  /\ detectReply = <<>>
  /\ fs = [p \in Paths |-> Absent]
  /\ HandlersIdle
  /\ NoPureCall

\* detectDuplicates is one async function: once called, it keeps running
SpecDetectLive == InitDetectLive /\ [][NextDetect]_vars /\ WF_vars(NextDetect)

\* something failed in the comparison just made: the try block raised, a
\* configured provider's call raised, or a local method answered 0
PairFailed ==
  /\ comparison # <<>>
  /\ \/ comparison[1].raised
     \/ Len(comparison[1].consensus.individualResults)
          < Cardinality(configured) + 1
     \/ localAnswer(comparison[1].consensus).similarity # Frac(1, 1)

groupPasses(group, rec) ==
  \A n \in 1..Len(groupChecks(group, rec)) : groupChecks(group, rec)[n].passed

\* C30: a group that fails a safety check stops only itself: when every file
\* is still there, each group that passes its own two checks is among the
\* groups the detect-duplicates handler returns, whatever the other groups do.
C30_PassingGroupsProceed ==
  (detectReply # <<>> /\ detectReply[1].fileVerification.verified) =>
    \A g \in 1..Len(duplicateGroups) :
      groupPasses(duplicateGroups[g], recommended) =>
        duplicateGroups[g] \in Range(detectReply[1].groups)

\* what holds instead: the handler returns all the groups or none
AllGroupsOrNone ==
  detectReply # <<>> =>
    \/ /\ dpc = "returned"
       /\ detectReply[1].groups = duplicateGroups
       /\ \A g \in 1..Len(duplicateGroups) :
            groupPasses(duplicateGroups[g], recommended)
    \/ /\ dpc = "raised"
       /\ detectReply[1].groups = <<>>

\* ------------------------------------------- one delete-files call after another
MaxBackups == 2
MaxClock == 2

\* the pre-deletion backups that have finished
BackupCalls ==
  Cardinality({n \in 1..Len(operationLog) :
                 operationLog[n].operation = "pre-deletion-backup"})

\* the delete-files handler has returned or rejected; the renderer may invoke
\* it again
InvokeAgain ==
  /\ pc \in {"completed", "failed"}
  /\ BackupCalls < MaxBackups
  /\ pc' = "idle"
  /\ sub' = "none"
  /\ UNCHANGED <<fs, backupDirs, operationLog, now, filesToDelete, idx,
                 backupId, copiedFiles, verification, seen, results, restored,
                 failed, mismatch, trashBin, extCount, stopReplies, restoreReply, detectVars,
                 pureVars>>

\* a millisecond passes: Date.now() reads one more
Tick ==
  /\ now < MaxClock
  /\ now' = now + 1
  /\ UNCHANGED <<fs, backupDirs, operationLog, trashBin, extCount, handlerVars,
                 stopReplies, restoreReply, detectVars, pureVars>>

NextBackups == DeleteWorkflow \/ InvokeAgain \/ Tick

\* delete-files calls one after another, the clock advancing or not
SpecBackups == Init /\ [][NextBackups]_vars

\* the ids of the backups that have finished, in order
RECURSIVE finishedBackupIds(_)
finishedBackupIds(log) ==
  IF log = <<>> THEN <<>>
  ELSE (IF Head(log).operation = "pre-deletion-backup"
        THEN <<Head(log).backupId>> ELSE <<>>)
       \o finishedBackupIds(Tail(log))

\* C31: two backup operations never get the same backup identifier, at
\* whatever clock readings they start, and a manifest that has been written
\* is not written again or changed by a later backup.
C31_BackupIdsDistinct ==
  /\ [](LET ids == finishedBackupIds(operationLog)
        IN Cardinality(Range(ids)) = Len(ids))
  /\ [][\A id \in DOMAIN backupDirs :
          backupDirs[id].manifest.written =>
            backupDirs'[id].manifest = backupDirs[id].manifest]_vars

\* -------------------------------------------- detectWithEnterpriseAI alone
NCluster == 3

\* the pairs of images 1..n, and the orders the images can be handed in
ImagePairs(n) == {{a, b} : a, b \in 1..n} \ {{a} : a \in 1..n}
Orders(n) == {f \in [1..n -> 1..n] : \A a, b \in 1..n : f[a] = f[b] => a = b}

\* mutant of scanFrom: the seed is compared with every other image, processed
\* or not, earlier or later
scanAllOthers(order, match, i, j, acc) ==
  LET scanRest[k \in 1..(Len(order) + 1)] ==
        IF k > Len(order)
        THEN [acc EXCEPT !.compared =
                [n \in 1..(Len(order) - 1) |->
                   <<order[i], order[IF n < i THEN n ELSE n + 1]>>]]
        ELSE LET rest == scanRest[k + 1]
             IN IF k # i /\ k \notin acc.processed
                     /\ {order[i], order[k]} \in match
                THEN [rest EXCEPT !.similarImages = <<order[k]>> \o @,
                                  !.processed = @ \cup {k}]
                ELSE rest
      out == scanRest[1]
  IN [out EXCEPT !.similarImages = acc.similarImages \o @,
                 !.compared = acc.compared \o @]

\* the j loop for seed i from position j on: an image already processed is
\* passed over, the others are compared with the seed and absorbed on a match
RECURSIVE scanFrom(_, _, _, _, _)
scanFrom(order, match, i, j, acc) ==
  IF j > Len(order) THEN acc
  ELSE IF j \in acc.processed THEN scanFrom(order, match, i, j + 1, acc)
  ELSE LET pair == <<order[i], order[j]>>
           seen1 == [acc EXCEPT !.compared = Append(@, pair)]
       IN IF {order[i], order[j]} \in match
          THEN scanFrom(order, match, i, j + 1,
                 [seen1 EXCEPT !.similarImages = Append(@, order[j]),
                               !.processed = @ \cup {j}])
          ELSE scanFrom(order, match, i, j + 1, seen1)

\* the i loop from position i on: a processed image is passed over, any other
\* seeds a cluster, which becomes a group when it has more than one image
RECURSIVE clusterFrom(_, _, _, _)
clusterFrom(order, match, i, acc) ==
  IF i > Len(order) THEN acc
  ELSE IF i \in acc.processed THEN clusterFrom(order, match, i + 1, acc)
  ELSE LET seeded == [acc EXCEPT !.similarImages = <<order[i]>>,
                                 !.processed = @ \cup {i}]
           scanned == scanFrom(order, match, i, i + 1, seeded)
       IN clusterFrom(order, match, i + 1,
            IF Len(scanned.similarImages) > 1
            THEN [scanned EXCEPT !.similarGroups =
                                   Append(@, scanned.similarImages)]
            ELSE scanned)

\* detectWithEnterpriseAI on images handed in the given order, the pairs in
\* match being those whose comparison absorbs
detectWithEnterpriseAI(order, match) ==
  clusterFrom(order, match, 1,
    [similarGroups |-> <<>>, similarImages |-> <<>>, processed |-> {},
     compared |-> <<>>])

\* one set of images with one answer for every pair, clustered as handed in
\* and in another order
InitClustering ==
  /\ fs \in [Paths -> {Absent}]
  /\ HandlersIdle
  /\ NoDetection
  /\ \E n \in 0..NCluster :
       \E match \in SUBSET ImagePairs(n), order \in Orders(n) :
         pureArgs = [n |-> n, match |-> match, order |-> order]
  /\ pureResult = <<>>

ClusterBothOrders ==
  /\ pureResult = <<>>
  /\ pureResult' =
       <<[asHanded |-> detectWithEnterpriseAI([k \in 1..pureArgs.n |-> k],
                                              pureArgs.match),
          reordered |-> detectWithEnterpriseAI(pureArgs.order,
                                               pureArgs.match)]>>
  /\ UNCHANGED <<pureArgs, safetyVars, detectVars>>

SpecClustering == InitClustering /\ [][ClusterBothOrders]_vars

\* the groups of a clustering as sets of images
groupSets(clustering) ==
  {Range(clustering.similarGroups[g]) :
     g \in 1..Len(clustering.similarGroups)}

\* C32: the set of similarity groups the clustering produces is the same for
\* every order in which the same images are handed in.
C32_ClusteringOrderIndependent ==
  pureResult # <<>> =>
    groupSets(pureResult[1].asHanded) = groupSets(pureResult[1].reordered)

\* what holds: when matching is transitive, the order does not matter
TransitiveMatch ==
  \A a, b, c \in 1..pureArgs.n :
    ({a, b} \in pureArgs.match /\ {b, c} \in pureArgs.match /\ a # c)
      => {a, c} \in pureArgs.match

OrderIndependentWhenTransitive ==
  (pureResult # <<>> /\ TransitiveMatch) =>
    groupSets(pureResult[1].asHanded) = groupSets(pureResult[1].reordered)

\* the pairs a clustering compared, without their direction
comparedPairs(clustering) ==
  {{clustering.compared[c][1], clustering.compared[c][2]} :
     c \in 1..Len(clustering.compared)}

SeedToCandidateOnly ==
  /\ (dpc = "scan" /\ comparison # <<>>) =>
       /\ seed < cand
       /\ seed \in processed
       /\ similarImages[1] = uniqueImages[seed]
  /\ \A g \in 1..Len(similarGroups) : Len(similarGroups[g].images) > 1

\* C33: the image a comparison was made with has joined the seed's cluster
\* exactly when the pair is a match; comparisons are made only between a seed
\* and a later image that no cluster holds yet, and a cluster of the seed
\* alone is not emitted as a group.
C33_GreedySeedClustering ==
  /\ SeedToCandidateOnly
  /\ (dpc = "scan" /\ comparison # <<>>) =>
       (cand \in processed <=> Matches(comparison[1].consensus))

\* the images of a group are in non-increasing order of qualityScore
SortedByScore(group) ==
  \A m, n \in 1..Len(group.images) :
    m < n => qualityScore[group.images[m]] >= qualityScore[group.images[n]]

\* C35: when the ranking is done the images of every group are sorted by
\* qualityScore, highest first; the first image is flagged recommended and
\* has the highest score of the group; no other image of the group is flagged.
C35_RankedAndFirstRecommended ==
  dpc = "verifying" =>
    \A g \in 1..Len(duplicateGroups) :
      LET group == duplicateGroups[g] IN
      /\ SortedByScore(group)
      /\ recommended[group.images[1]]
      /\ \A n \in 1..Len(group.images) :
           /\ qualityScore[group.images[1]] >= qualityScore[group.images[n]]
           /\ n > 1 => ~recommended[group.images[n]]

\* ---------------------------------------------- calculateQualityScore alone
\* image records of any resolution (in units of 2.5 megapixels), size (in
\* units of 1.25 MB), age (in units of 73 days, negative when the file was
\* modified in the future), format and path depth
ScoredResolutions == {0, 1, 4, 12}
ScoredSizes == {0, 1, 9}
ScoredAges == {-50, -1, 0, 3, 5, 40}
ScoredFormats == {"png", "jpg", "raw"}
ScoredDepths == {1, 3, 12}

ScoredImages ==
  {[path |-> [k \in 1..depth |-> "dir"], hash |-> "h1", size |-> size,
    resolution |-> resolution, modified |-> age, format |-> format] :
     depth \in ScoredDepths, size \in ScoredSizes,
     resolution \in ScoredResolutions, age \in ScoredAges,
     format \in ScoredFormats}

InitScore ==
  /\ fs \in [Paths -> {Absent}]
  /\ HandlersIdle
  /\ NoDetection
  /\ pureArgs \in ScoredImages
  /\ pureResult = <<>>

ScoreImage ==
  /\ pureResult = <<>>
  /\ pureResult' = <<calculateQualityScore(pureArgs)>>
  /\ UNCHANGED <<pureArgs, safetyVars, detectVars>>

SpecScore == InitScore /\ [][ScoreImage]_vars

\* C36: calculateQualityScore returns a value from 0 to 1 (0 to 1000
\* thousandths) for every record with non-negative resolution and size,
\* whenever the file was modified, whatever its format and path depth.
C36_ScoreWithinUnitInterval ==
  pureResult # <<>> => (pureResult[1] >= 0 /\ pureResult[1] <= 1000)

\* a file modified in the future, whose recency term alone exceeds 1, has
\* been scored
C36_Witness ==
  /\ pureResult # <<>>
  /\ pureArgs.modified = -50
  /\ pureArgs.resolution = 0
  /\ pureResult[1] = 1000


\* --------------------------------------------- what restoreFromBackup returns
\* the paths restoreFromBackup reported in failed
restoreFailedPaths(reply) ==
  [n \in 1..Len(reply.failed) |-> reply.failed[n].path]

\* the entries of the manifest the reply is about
repliedFiles(reply) == backupDirs[reply.backupId].manifest.files

\* every entry of the manifest is reported once: a path stands in restored
\* and failed together as often as the manifest holds it
EachEntryReportedOnce ==
  restoreReply # <<>> =>
    LET reply == restoreReply[1]
        originals == [n \in 1..Len(repliedFiles(reply)) |->
                        repliedFiles(reply)[n].originalPath]
    IN \A p \in Paths :
         Occurrences(reply.restored, p)
           + Occurrences(restoreFailedPaths(reply), p)
         = Occurrences(originals, p)

\* every original path of the manifest is in exactly one of the two lists
PathInExactlyOneList ==
  restoreReply # <<>> =>
    LET reply == restoreReply[1] IN
      \A n \in 1..Len(repliedFiles(reply)) :
        LET p == repliedFiles(reply)[n].originalPath IN
          (Occurrences(reply.restored, p) > 0)
            # (Occurrences(restoreFailedPaths(reply), p) > 0)

\* success is true exactly when failed is empty
SuccessIffNothingFailed ==
  restoreReply # <<>> =>
    (restoreReply[1].success <=> restoreReply[1].failed = <<>>)

\* a call that found its backup appends one log entry, as it returns, whose
\* status is partial exactly when failed is not empty
OneLogEntryPerRestore ==
  [][pc = "restoring" =>
       IF pc' = "restored"
         THEN /\ Len(operationLog') = Len(operationLog) + 1
              /\ SubSeq(operationLog', 1, Len(operationLog)) = operationLog
              /\ operationLog'[Len(operationLog')].operation
                   = "restore-from-backup"
              /\ operationLog'[Len(operationLog')].status
                   = IF restoreReply'[1].failed # <<>> THEN "partial"
                                                       ELSE "completed"
         ELSE operationLog' = operationLog]_vars

\* an entry whose restored digest differs from the manifest's goes to failed
\* and not to restored
MismatchGoesToFailed ==
  [][(/\ pc = "restoring" /\ sub = "verify"
      /\ idx' = idx + 1
      /\ fs[currentEntry.originalPath] # Absent
      /\ calculateFileHash(fs[currentEntry.originalPath]) # currentEntry.hash)
       => /\ restored' = restored
          /\ failed' = Append(failed,
                         [path |-> currentEntry.originalPath,
                          reason |-> "Hash mismatch after restore"])]_vars

\* C37: a restoreFromBackup call that finds its backup reports every manifest
\* entry's original path in exactly one of restored and failed, returns
\* success exactly when failed is empty, appends exactly one operation-log
\* entry whose status is partial when failed is not empty and completed
\* otherwise, and reports an entry whose restored digest differs from the
\* manifest's in failed, never in restored.
C37_RestoreAccounting ==
  /\ []PathInExactlyOneList
  /\ []SuccessIffNothingFailed
  /\ OneLogEntryPerRestore
  /\ MismatchGoesToFailed


\* ------------------------------------ deletion manager: createBackup(files)
MaxCopies == 3     \* most paths handed to one createBackup call

\* names a file can have inside the backup directory
FileNames == {Basename(p) : p \in Paths}

InitCreateBackup ==
  /\ fs \in [Paths -> Contents \cup {Absent}]
  /\ HandlersIdle
  /\ NoDetection
  /\ pureArgs \in SeqsUpTo(Paths, MaxCopies) \ {<<>>}
  /\ pureResult = <<>>

\* fs.ensureDir(backupDir); filesToDelete.map(async ...): one copy per path,
\* all of them started before any has finished
CreateBackupCall ==
  /\ pureResult = <<>>
  /\ pureResult' = <<[backupDir |-> [name \in FileNames |-> Absent],
                      pending |-> 1..Len(pureArgs),
                      settled |-> [n \in 1..Len(pureArgs) |-> <<>>],
                      returned |-> FALSE,
                      backupResults |-> <<>>]>>
  /\ UNCHANGED <<pureArgs, safetyVars, detectVars>>

\* await fs.copy(filePath, path.join(backupDir, fileName)) of one path
\* finishes and its promise resolves to {original, backup}
CopyResolves ==
  /\ pureResult # <<>>
  /\ \E n \in pureResult[1].pending :
       LET filePath == pureArgs[n]
           backupPath == Basename(filePath)
       IN /\ fs[filePath] # Absent
          /\ pureResult' =
               <<[pureResult[1] EXCEPT
                    !.backupDir[backupPath] = fs[filePath],
                    !.pending = @ \ {n},
                    !.settled[n] = <<[original |-> filePath,
                                      backup |-> backupPath]>>]>>
  /\ UNCHANGED <<pureArgs, safetyVars, detectVars>>

\* fs.copy raises (the source is missing or cannot be read): the catch logs
\* and the promise resolves to null
CopyRaises ==
  /\ pureResult # <<>>
  /\ \E n \in pureResult[1].pending :
       pureResult' = <<[pureResult[1] EXCEPT !.pending = @ \ {n}]>>
  /\ UNCHANGED <<pureArgs, safetyVars, detectVars>>

\* the pairs of settled[from..], nulls left out
RECURSIVE nonNull(_, _)
nonNull(settled, from) ==
  IF from > Len(settled) THEN <<>>
  ELSE settled[from] \o nonNull(settled, from + 1)

\* await Promise.all(backupPromises); return backupResults.filter(...)
CreateBackupReturn ==
  /\ pureResult # <<>>
  /\ pureResult[1].pending = {}
  /\ ~pureResult[1].returned
  /\ pureResult' =
       <<[pureResult[1] EXCEPT
            !.returned = TRUE,
            !.backupResults = nonNull(pureResult[1].settled, 1)]>>
  /\ UNCHANGED <<pureArgs, safetyVars, detectVars>>

NextCreateBackup ==
  \/ CreateBackupCall
  \/ CopyResolves
  \/ CopyRaises
  \/ CreateBackupReturn

SpecCreateBackup == InitCreateBackup /\ [][NextCreateBackup]_vars

\* the pairs a finished createBackup call returned
returnedPairs ==
  IF pureResult # <<>> /\ pureResult[1].returned
    THEN Range(pureResult[1].backupResults)
    ELSE {}

\* a returned backup file holds what one of the returned originals of its
\* file name holds
BackupHoldsSomeNamesake ==
  \A pair \in returnedPairs :
    \E other \in returnedPairs :
      /\ other.backup = pair.backup
      /\ pureResult[1].backupDir[pair.backup] = fs[other.original]

\* C38: for every {original, backup} pair createBackup returns, the backup
\* file holds the content of that original, also when originals of the same
\* call share a file name and their copies run concurrently.
C38_BackupHoldsItsOriginal ==
  \A pair \in returnedPairs :
    pureResult[1].backupDir[pair.backup] = fs[pair.original]


\* ------------------------------------------ backup paths inside one batch
\* no two entries of the list share a backupPath
DistinctBackupPaths(entries) ==
  \A m, n \in 1..Len(entries) :
    m # n => entries[m].backupPath # entries[n].backupPath

\* the entries pushed so far, and every manifest written, have pairwise
\* distinct backup paths
BackupPathsDistinct ==
  /\ DistinctBackupPaths(copiedFiles)
  /\ \A id \in DOMAIN backupDirs :
       backupDirs[id].manifest.written
         => DistinctBackupPaths(backupDirs[id].manifest.files)

\* a copy of the running batch leaves the copies its earlier entries name
\* as they are
EarlierCopiesKept ==
  [][pc = "backing-up" =>
       \A n \in 1..Len(copiedFiles) :
         backupDirs'[backupId].files[copiedFiles[n].backupPath]
           = backupDirs[backupId].files[copiedFiles[n].backupPath]]_vars

\* C39: within one pre-deletion backup no two manifest entries share a
\* backupPath, also when distinct source paths have the same file name, and
\* no copy of the batch is overwritten by a later copy of the same batch.
C39_BackupPathsUniqueInBatch ==
  /\ []BackupPathsDistinct
  /\ EarlierCopiesKept

\* a written manifest with entries for two different paths of one file name
C39_Witness ==
  /\ backupId \in DOMAIN backupDirs
  /\ manifest.written
  /\ \E m, n \in 1..Len(manifest.files) :
       /\ manifest.files[m].originalPath # manifest.files[n].originalPath
       /\ Basename(manifest.files[m].originalPath)
            = Basename(manifest.files[n].originalPath)

====
